---------------------------- MODULE Spec2Model ----------------------------
(***************************************************************************)
(* A model of sparse's instruction simplifier (simplify.c) and of the IR   *)
(* data it rewrites (linearize.h).                                         *)
(*                                                                         *)
(* The IR is held in the variables insns / users / def / blocks; every     *)
(* function of simplify.c that changes the IR is an operator from an IR    *)
(* record to an IR record, and the exported entry points are the actions.  *)
(* `long long' values are 64-bit two's-complement words, represented as    *)
(* the set of their one bits (bit 0 = least significant).                  *)
(***************************************************************************)
EXTENDS Integers, Sequences, FiniteSets, Bags, TLC

(***************************************************************************)
(* Host integer widths.                                                    *)
(***************************************************************************)
LLBits == 64

AllBits == 0 .. (LLBits - 1)

BV == SUBSET AllBits

(***************************************************************************)
(* 64-bit word arithmetic on bit sets (the C operators eval_insn uses),    *)
(* carried out on the four 16-bit limbs of a word.  An operator binds its   *)
(* operands with a quantifier over a singleton where it reads them more    *)
(* than once: the operand is then evaluated once, not once for every read. *)
(***************************************************************************)
Bit(a, i) == IF i \in a THEN 1 ELSE 0

\* F of the value of e: e is evaluated once, however often F reads it
Let(e, F(_)) == CHOOSE r \in {F(x) : x \in {e}} : TRUE

MaxOf(S) == CHOOSE x \in S : \A y \in S : y <= x

BVZero == {}

BVOne == {0}

BVOnes == AllBits

BVNot(a) == AllBits \ a

BVAnd(a, b) == a \cap b

BVOr(a, b) == a \cup b

BVXor(a, b) == (a \ b) \cup (b \ a)

Pow2(k) == IF k = 0 THEN 1 ELSE 2 ^ k

\* bits o .. o+n-1 of a, as a number (n a multiple of 4)
RECURSIVE Field(_, _, _)
Field(a, o, n) ==
    IF n = 0 THEN 0
    ELSE Bit(a, o) + 2 * Bit(a, o + 1) + 4 * Bit(a, o + 2) + 8 * Bit(a, o + 3)
           + 16 * Field(a, o + 4, n - 4)

Byte(a, o) == Field(a, o, 8)

\* limb k (0 .. 3) of a
Limb(a, k) == Field(a, 16 * k, 16)

\* the word of four limbs, each taken modulo 2^16
OfLimbs(l0, l1, l2, l3) ==
    UNION {{i \in AllBits : (l[(i \div 16) + 1] \div Pow2(i % 16)) % 2 = 1} :
              l \in {<<l0, l1, l2, l3>>}}

\* a + b + cin modulo 2^64
Add64(a, b, cin) ==
    UNION {LET s0 == Limb(x, 0) + Limb(y, 0) + cin
               s1 == Limb(x, 1) + Limb(y, 1) + (s0 \div 65536)
               s2 == Limb(x, 2) + Limb(y, 2) + (s1 \div 65536)
               s3 == Limb(x, 3) + Limb(y, 3) + (s2 \div 65536)
           IN  OfLimbs(s0, s1, s2, s3) : x \in {a}, y \in {b}}

\* a + b + cin modulo 2^w, w <= 64
AddW(a, b, cin, w) == Add64(a, b, cin) \cap (0 .. (w - 1))

BVAdd(a, b) == Add64(a, b, 0)

BVSub(a, b) == Add64(a, AllBits \ b, 1)

BVNeg(a) == BVSub(BVZero, a)

\* unsigned a < b
ULT(a, b) ==
    \E x \in {a}, y \in {b} :
        \E a3 \in {Limb(x, 3)}, b3 \in {Limb(y, 3)},
           a2 \in {Limb(x, 2)}, b2 \in {Limb(y, 2)},
           a1 \in {Limb(x, 1)}, b1 \in {Limb(y, 1)} :
            IF a3 # b3 THEN a3 < b3
            ELSE IF a2 # b2 THEN a2 < b2
            ELSE IF a1 # b1 THEN a1 < b1
            ELSE Limb(x, 0) < Limb(y, 0)

\* signed a < b: compare with the sign bits flipped
SLT(a, b) == ULT(BVXor(a, {LLBits - 1}), BVXor(b, {LLBits - 1}))

\* a << k and a >> k for 0 <= k < 64
ShlK(a, k) == {i + k : i \in a} \cap AllBits

LsrK(a, k) == {i - k : i \in a} \cap AllBits

AsrK(a, k) ==
    UNION {LsrK(x, k) \cup (IF (LLBits - 1) \in x THEN (LLBits - k) .. (LLBits - 1) ELSE {}) :
              x \in {a}}

\* a * m modulo 2^64 for 0 <= m < 256
MulSmall(a, m) ==
    UNION {LET p0 == Limb(x, 0) * n
               p1 == Limb(x, 1) * n + (p0 \div 65536)
               p2 == Limb(x, 2) * n + (p1 \div 65536)
               p3 == Limb(x, 3) * n + (p2 \div 65536)
           IN  OfLimbs(p0, p1, p2, p3) : x \in {a}, n \in {m}}

\* unsigned a * b modulo 2^64: one partial product per byte of b
BVMul(a, b) ==
    UNION {LET pp(j) == ShlK(MulSmall(x, Byte(y, 8 * j)), 8 * j)
           IN  BVAdd(BVAdd(BVAdd(pp(0), pp(1)), BVAdd(pp(2), pp(3))),
                     BVAdd(BVAdd(pp(4), pp(5)), BVAdd(pp(6), pp(7)))) :
              x \in {a}, y \in {b}}

\* one step of restoring division: bit i of n comes into the remainder
DivBit(n, d, i, qr) ==
    CHOOSE x \in
        {IF (LLBits - 1) \in qr.r \/ ~ULT(r1, d)
         THEN [q |-> qr.q \cup {i}, r |-> BVSub(r1, d)]
         ELSE [q |-> qr.q, r |-> r1] :
            r1 \in {{j + 1 : j \in qr.r \ {LLBits - 1}}
                       \cup (IF i \in n THEN {0} ELSE {})}} : TRUE

\* the steps for the k bits i, i-1, .., i-k+1 of n (k a power of two): the
\* upper half, then the lower half from where the upper half ended
RECURSIVE DivLoop(_, _, _, _, _)
DivLoop(n, d, i, k, qr) ==
    IF k = 1 THEN DivBit(n, d, i, qr)
    ELSE CHOOSE x \in {DivLoop(n, d, i - (k \div 2), k \div 2, y) :
                          y \in {DivLoop(n, d, i, k \div 2, qr)}} : TRUE

\* unsigned quotient and remainder, d # 0
UDivMod(n, d) ==
    CHOOSE qr \in {DivLoop(x, y, LLBits - 1, LLBits, [q |-> {}, r |-> {}]) :
                      x \in {n}, y \in {d}} : TRUE

IsNeg(a) == (LLBits - 1) \in a

BVAbs(a) == IF IsNeg(a) THEN BVNeg(a) ELSE a

\* C's signed division: the quotient truncates towards zero
SDiv(a, b) ==
    UNION {IF IsNeg(a) # IsNeg(b) THEN BVNeg(q) ELSE q :
              q \in {UDivMod(BVAbs(a), BVAbs(b)).q}}

\* C's signed remainder: it has the sign of the dividend
SMod(a, b) ==
    UNION {IF IsNeg(a) THEN BVNeg(r) ELSE r :
              r \in {UDivMod(BVAbs(a), BVAbs(b)).r}}

\* the word of a (32-bit) model integer, sign-extended
BVOfInt(n) ==
    UNION {{i \in 0 .. 30 : (m \div Pow2(i)) % 2 = 1}
              \cup (IF m < 0 THEN 31 .. (LLBits - 1) ELSE {}) : m \in {n}}

FitsInt(a) == \/ a \subseteq 0 .. 30
              \/ (31 .. (LLBits - 1)) \subseteq a

\* the model integer of a word that FitsInt
IntOfBV(a) ==
    CHOOSE n \in {IF IsNeg(x) THEN (low - 1073741824) - 1073741824 ELSE low :
                     x \in {a}, low \in {Limb(a, 0) + 65536 * Limb(a \ {31}, 1)}} : TRUE

(***************************************************************************)
(* What a shift whose count is outside 0..63 (undefined in C) can produce: *)
(* the count taken modulo 64 (x86-64, arm64 shift instructions) or every   *)
(* bit shifted out (a folded or saturating shift).                         *)
(***************************************************************************)
UndShift == {"modulo", "shifted_out"}

ShiftCountOK(c) == c \subseteq 0 .. 5

ShiftCount(c) == Byte(c \cap (0 .. 5), 0)

(***************************************************************************)
(* eval_insn: fold a binary or compare instruction with two VAL operands.  *)
(***************************************************************************)
NoFold == [fold |-> FALSE, value |-> {}]

Folded(v) == [fold |-> TRUE, value |-> v]

BoolBV(b) == IF b THEN BVOne ELSE BVZero

EvalOps == {"OP_ADD", "OP_SUB", "OP_MUL", "OP_DIVU", "OP_DIVS", "OP_MODU",
            "OP_MODS", "OP_SHL", "OP_LSR", "OP_ASR", "OP_AND", "OP_OR",
            "OP_XOR", "OP_AND_BOOL", "OP_OR_BOOL", "OP_SET_EQ", "OP_SET_NE",
            "OP_SET_LE", "OP_SET_GE", "OP_SET_LT", "OP_SET_GT", "OP_SET_B",
            "OP_SET_A", "OP_SET_BE", "OP_SET_AE"}

\* mask = 1ULL << (size-1); bits = mask | (mask-1)
SignMask(size) == {size - 1}

LowBits(size) == 0 .. (size - 1)

\* an operand taken as stored, without the sign extension
sign_extend_none(v, size) == v

\* if (v & mask) v |= ~bits
SignExtend(v, size) ==
    IF (size - 1) \in v THEN v \cup (AllBits \ LowBits(size)) ELSE v

eval_shift(opcode, left, right, ul, ur, und) ==
    LET cnt  == IF opcode = "OP_LSR" THEN ur ELSE right
        k    == ShiftCount(cnt)
        val  == IF opcode = "OP_LSR" THEN ul ELSE left
        doit(kk) == CASE opcode = "OP_SHL" -> ShlK(val, kk)
                      [] opcode = "OP_LSR" -> LsrK(val, kk)
                      [] OTHER             -> AsrK(val, kk)
    IN  IF ShiftCountOK(cnt) THEN doit(k)
        ELSE IF und = "modulo" THEN doit(k)
        ELSE IF opcode = "OP_ASR" /\ IsNeg(val) THEN BVOnes
        ELSE BVZero

eval_insn(opcode, size, src1, src2, und) ==
    LET left  == SignExtend(src1, size)
        right == SignExtend(src2, size)
        mask  == SignMask(size)
        bits  == LowBits(size)
        ul    == BVAnd(left, bits)
        ur    == BVAnd(right, bits)
        done(res) == Folded(BVAnd(res, bits))
    IN  CASE opcode = "OP_ADD" -> done(BVAdd(left, right))
          [] opcode = "OP_SUB" -> done(BVSub(left, right))
          [] opcode = "OP_MUL" -> done(BVMul(ul, ur))
          [] opcode = "OP_DIVU" ->
                IF ur = BVZero THEN NoFold ELSE done(UDivMod(ul, ur).q)
          [] opcode = "OP_DIVS" ->
                IF right = BVZero THEN NoFold
                ELSE IF left = mask /\ right = BVOnes THEN NoFold
                ELSE done(SDiv(left, right))
          [] opcode = "OP_MODU" ->
                IF ur = BVZero THEN NoFold ELSE done(UDivMod(ul, ur).r)
          [] opcode = "OP_MODS" ->
                IF right = BVZero THEN NoFold
                ELSE IF left = mask /\ right = BVOnes THEN NoFold
                ELSE done(SMod(left, right))
          [] opcode \in {"OP_SHL", "OP_LSR", "OP_ASR"} ->
                done(eval_shift(opcode, left, right, ul, ur, und))
          [] opcode = "OP_AND" -> done(BVAnd(left, right))
          [] opcode = "OP_OR"  -> done(BVOr(left, right))
          [] opcode = "OP_XOR" -> done(BVXor(left, right))
          [] opcode = "OP_AND_BOOL" ->
                done(BoolBV(left # BVZero /\ right # BVZero))
          [] opcode = "OP_OR_BOOL" ->
                done(BoolBV(left # BVZero \/ right # BVZero))
          [] opcode = "OP_SET_EQ" -> done(BoolBV(left = right))
          [] opcode = "OP_SET_NE" -> done(BoolBV(left # right))
          [] opcode = "OP_SET_LE" -> done(BoolBV(~SLT(right, left)))
          [] opcode = "OP_SET_GE" -> done(BoolBV(~SLT(left, right)))
          [] opcode = "OP_SET_LT" -> done(BoolBV(SLT(left, right)))
          [] opcode = "OP_SET_GT" -> done(BoolBV(SLT(right, left)))
          [] opcode = "OP_SET_B"  -> done(BoolBV(ULT(ul, ur)))
          [] opcode = "OP_SET_A"  -> done(BoolBV(ULT(ur, ul)))
          [] opcode = "OP_SET_BE" -> done(BoolBV(~ULT(ur, ul)))
          [] opcode = "OP_SET_AE" -> done(BoolBV(~ULT(ul, ur)))
          [] OTHER -> NoFold

\* the shift count eval_insn uses is outside 0..63
EvalHitsUndefined(opcode, size, src2) ==
    /\ opcode \in {"OP_SHL", "OP_LSR", "OP_ASR"}
    /\ ~ShiftCountOK(IF opcode = "OP_LSR" THEN BVAnd(SignExtend(src2, size), LowBits(size))
                     ELSE SignExtend(src2, size))

(***************************************************************************)
(* The IR data model (linearize.h).                                        *)
(*                                                                         *)
(* A pseudo is <<type, nr>>; a VAL's nr is its value.  An operand slot of  *)
(* an instruction is <<field, index>>: the first union member (src, src1,  *)
(* cond, phi_src, symbol, func share one address) is <<"src1", 0>>.  A use *)
(* list is the bag of its pseudo_user entries <<insn, field, index>>.      *)
(***************************************************************************)
VOID == <<"VOID", 0>>

NULLP == <<"NULL", 0>>

VAL(v) == <<"VAL", v>>

REG(k) == <<"REG", k>>

SYM(k) == <<"SYM", k>>

ARG(k) == <<"ARG", k>>

PHI(k) == <<"PHI", k>>

REPEAT_CSE == {"REPEAT_CSE"}

REPEAT_SYMBOL_CLEANUP == {"REPEAT_SYMBOL_CLEANUP"}

REPEAT_CFG_CLEANUP == {"REPEAT_CFG_CLEANUP"}

SRC1 == <<"src1", 0>>

SRC2 == <<"src2", 0>>

SRC3 == <<"src3", 0>>

TARGET == <<"target", 0>>

NOSLOT == <<"null", 0>>

PhiSlot(k) == <<"phi_list", k>>

ArgSlot(k) == <<"arguments", k>>

has_use_list(p) == p[1] \notin {"NULL", "VOID", "VAL"}

constant(p) == p[1] = "VAL"

is_zero(p) == p[1] = "VAL" /\ p[2] = 0

\* struct symbol as the simplifier reads a type: is_ptr_type/is_float_type
\* (kind), bit_size, MOD_SIGNED, MOD_VOLATILE; kind "null" is a NULL pointer
Type(kind, bit_size, signed, volatile) ==
    [kind |-> kind, bit_size |-> bit_size, signed |-> signed,
     volatile |-> volatile]

NullType == Type("null", 0, FALSE, FALSE)

IntType == Type("int", 0, FALSE, FALSE)

\* struct instruction, with the fields the simplifier reads; offset is an
\* unsigned int, held as the set of its one bits
Insn(op, bb, size, target, s1, s2, s3) ==
    [opcode |-> op, bb |-> bb, size |-> size, target |-> target,
     src1 |-> s1, src2 |-> s2, src3 |-> s3,
     phi_list |-> <<>>, arguments |-> <<>>, multijmp_list |-> <<>>,
     bb_true |-> 0, bb_false |-> 0, offset |-> {},
     type |-> IntType, orig_type |-> NullType]

GetSlot(s, i, slot) ==
    CASE slot[1] = "src1"      -> s.insns[i].src1
      [] slot[1] = "src2"      -> s.insns[i].src2
      [] slot[1] = "src3"      -> s.insns[i].src3
      [] slot[1] = "target"    -> s.insns[i].target
      [] slot[1] = "phi_list"  -> s.insns[i].phi_list[slot[2]]
      [] slot[1] = "arguments" -> s.insns[i].arguments[slot[2]]

SetSlot(s, i, slot, p) ==
    CASE slot[1] = "src1"      -> [s EXCEPT !.insns[i].src1 = p]
      [] slot[1] = "src2"      -> [s EXCEPT !.insns[i].src2 = p]
      [] slot[1] = "src3"      -> [s EXCEPT !.insns[i].src3 = p]
      [] slot[1] = "target"    -> [s EXCEPT !.insns[i].target = p]
      [] slot[1] = "phi_list"  -> [s EXCEPT !.insns[i].phi_list[slot[2]] = p]
      [] slot[1] = "arguments" -> [s EXCEPT !.insns[i].arguments[slot[2]] = p]

UsersOf(s, p) == IF p \in DOMAIN s.users THEN s.users[p] ELSE EmptyBag

pseudo_user_list_size(s, p) == BagCardinality(UsersOf(s, p))

has_users(s, p) == pseudo_user_list_size(s, p) # 0

Ret(s, r) == [s EXCEPT !.ret = r]

Abort(s, why) == [s EXCEPT !.abort = @ \cup {why}]

\* a use_pseudo() that stores the operand and forgets the use list
use_pseudo_unlisted(s, i, p, slot) == SetSlot(s, i, slot, p)

\* *pp = p; if (has_use_list(p)) add_pseudo_user_ptr(...)
use_pseudo(s, i, p, slot) ==
    LET s1 == SetSlot(s, i, slot, p)
    IN  IF has_use_list(p)
        THEN [s1 EXCEPT !.users[p] = @ (+) SetToBag({<<i, slot[1], slot[2]>>})]
        ELSE s1

\* one entry whose userp is `slot' of `i' is deleted; a missing entry fails
\* assert(count <= 0)
delete_pseudo_user_list_entry(s, p, i, slot) ==
    LET e == <<i, slot[1], slot[2]>>
    IN  IF BagIn(e, s.users[p])
        THEN [s EXCEPT !.users[p] = @ (-) SetToBag({e})]
        ELSE Abort(s, "assert: use-list entry missing")

(***************************************************************************)
(* rem_usage() on the last use of a pseudo calls kill_instruction(p->def). *)
(* Only a REG or a PHI pseudo holds an instruction in that union: an ARG   *)
(* holds the entry instruction, and a SYM holds a struct symbol, which     *)
(* kill_insn() then reads as an instruction (undefined).  s.und.symdef     *)
(* resolves it: the bytes read as bb are zero ("ignored"), the symbol is   *)
(* written over ("clobbered", recorded in s.clobbered) or the process      *)
(* faults ("fault").  s.undhit records that an undefined operation was     *)
(* executed, so that a caller need only branch over s.und when one was.    *)
(***************************************************************************)
UndSymDef == {"ignored", "clobbered", "fault"}

RECURSIVE kill_insn(_, _, _)
RECURSIVE kill_use(_, _, _)
RECURSIVE rem_usage(_, _, _, _, _)
RECURSIVE kill_use_list(_, _, _, _)

rem_usage(s, p, i, slot, kill) ==
    IF ~has_use_list(p) THEN s
    ELSE LET s1 == IF p[1] = "SYM"
                   THEN [s EXCEPT !.repeat_phase = @ \cup REPEAT_SYMBOL_CLEANUP]
                   ELSE s
             s2 == delete_pseudo_user_list_entry(s1, p, i, slot)
         IN  IF kill /\ ~has_users(s2, p)
             THEN CASE p[1] \in {"REG", "PHI", "ARG"} -> kill_insn(s2, s2.def[p], 0)
                    [] OTHER ->
                         LET s3 == [s2 EXCEPT !.undhit = @ \cup {"symdef"}]
                         IN  CASE s3.und.symdef = "ignored" -> s3
                               [] s3.und.symdef = "clobbered" ->
                                    [s3 EXCEPT !.clobbered = @ \cup {p},
                                               !.repeat_phase = @ \cup REPEAT_CSE]
                               [] OTHER -> Abort(s3, "fault: symbol read as instruction")
             ELSE s2

remove_usage(s, p, i, slot) == rem_usage(s, p, i, slot, TRUE)

\* kill_use() as remove_use() does it: the slot is unbound and no instruction
\* is killed
kill_use_without_cascade(s, i, slot) ==
    IF slot = NOSLOT THEN s
    ELSE LET p == GetSlot(s, i, slot)
         IN  rem_usage(SetSlot(s, i, slot, VOID), p, i, slot, FALSE)

\* kill_use(NULL) does nothing
kill_use(s, i, slot) ==
    IF slot = NOSLOT THEN s
    ELSE LET p == GetSlot(s, i, slot)
         IN  rem_usage(SetSlot(s, i, slot, VOID), p, i, slot, TRUE)

\* like kill_use() but does not kill the definition
remove_use(s, i, slot) ==
    LET p == GetSlot(s, i, slot)
    IN  rem_usage(SetSlot(s, i, slot, VOID), p, i, slot, FALSE)

\* kill_use() of every non-VOID entry of a pseudo list, from entry k on
kill_use_list(s, i, field, k) ==
    LET list == IF field = "phi_list" THEN s.insns[i].phi_list
                ELSE s.insns[i].arguments
    IN  IF k > Len(list) THEN s
        ELSE IF list[k] = VOID THEN kill_use_list(s, i, field, k + 1)
        ELSE kill_use_list(kill_use(s, i, <<field, k>>), i, field, k + 1)

BinaryOps == {"OP_ADD", "OP_SUB", "OP_MUL", "OP_DIVU", "OP_DIVS", "OP_MODU",
              "OP_MODS", "OP_SHL", "OP_LSR", "OP_ASR", "OP_FADD", "OP_FSUB",
              "OP_FMUL", "OP_FDIV", "OP_AND", "OP_OR", "OP_XOR",
              "OP_AND_BOOL", "OP_OR_BOOL"}

FpCmpOps == {"OP_FCMP_ORD", "OP_FCMP_OEQ", "OP_FCMP_ONE", "OP_FCMP_OLE",
             "OP_FCMP_OGE", "OP_FCMP_OLT", "OP_FCMP_OGT", "OP_FCMP_UEQ",
             "OP_FCMP_UNE", "OP_FCMP_ULE", "OP_FCMP_UGE", "OP_FCMP_ULT",
             "OP_FCMP_UGT", "OP_FCMP_UNO"}

BinCmpOps == {"OP_SET_EQ", "OP_SET_NE", "OP_SET_LE", "OP_SET_GE", "OP_SET_LT",
              "OP_SET_GT", "OP_SET_B", "OP_SET_A", "OP_SET_BE", "OP_SET_AE"}

\* case OP_BINARY ... OP_BINCMP_END
BinaryToBinCmpEnd == BinaryOps \cup FpCmpOps \cup BinCmpOps

CastOps == {"OP_CAST", "OP_SCAST", "OP_FPCAST", "OP_PTRCAST"}

\* MOD_PURE of a callee symbol: symbol 2 is the pure function of the model
IsPureSym(p) == p = SYM(2)

\* the part of kill_insn() after the switch: insn->bb = NULL
KillDone(s, i) ==
    LET s1 == [s EXCEPT !.insns[i].bb = 0,
                        !.repeat_phase = @ \cup REPEAT_CSE]
    IN  Ret(s1, s1.repeat_phase)

\* a kill_insn() that refuses nothing: the operand is dropped and the
\* instruction dies
kill_insn_always(s, i, force) ==
    IF i = 0 \/ s.insns[i].bb = 0 THEN Ret(s, {})
    ELSE KillDone(kill_use(s, i, SRC1), i)

kill_insn(s, i, force) ==
    IF i = 0 \/ s.insns[i].bb = 0 THEN Ret(s, {})
    ELSE
    LET op == s.insns[i].opcode
    IN  CASE op \in {"OP_SEL", "OP_RANGE"} ->
               KillDone(kill_use(kill_use(kill_use(s, i, SRC3), i, SRC2), i, SRC1), i)
          [] op \in BinaryToBinCmpEnd ->
               KillDone(kill_use(kill_use(s, i, SRC2), i, SRC1), i)
          [] op \in CastOps \cup {"OP_SETVAL", "OP_NOT", "OP_NEG", "OP_SLICE"} ->
               KillDone(kill_use(s, i, SRC1), i)
          [] op = "OP_PHI" ->
               KillDone(kill_use_list(s, i, "phi_list", 1), i)
          [] op = "OP_PHISOURCE" ->
               KillDone(kill_use(s, i, SRC1), i)
          [] op = "OP_SYMADDR" ->
               KillDone([s EXCEPT !.repeat_phase = @ \cup REPEAT_SYMBOL_CLEANUP], i)
          [] op \in {"OP_CBR", "OP_COMPUTEDGOTO"} ->
               KillDone(kill_use(s, i, SRC1), i)
          [] op = "OP_CALL" ->
               IF force = 0 /\ s.insns[i].src1[1] # "SYM" THEN Ret(s, {})
               ELSE IF force = 0 /\ ~IsPureSym(s.insns[i].src1) THEN Ret(s, {})
               ELSE LET s1 == kill_use_list(s, i, "arguments", 1)
                    IN  IF s1.insns[i].src1[1] = "REG"
                        THEN KillDone(kill_use(s1, i, SRC1), i)
                        ELSE KillDone(s1, i)
          [] op = "OP_LOAD" ->
               IF force = 0 /\ s.insns[i].type.volatile THEN Ret(s, {})
               ELSE KillDone(kill_use(s, i, SRC1), i)
          [] op = "OP_STORE" ->
               IF force = 0 THEN Ret(s, {})
               ELSE KillDone(kill_use(kill_use(s, i, SRC1), i, TARGET), i)
          [] op = "OP_ENTRY" -> Ret(s, {})
          [] OTHER -> KillDone(s, i)

\* flow.h: kill_instruction(insn) is kill_insn(insn, 0)
kill_instruction(s, i) == kill_insn(s, i, 0)

(***************************************************************************)
(* Collaborators of simplify.c that live in flow.c / linearize.c /         *)
(* opcode.c.                                                               *)
(***************************************************************************)
RECURSIVE RetargetSlots(_, _, _)
RetargetSlots(s, es, src) ==
    IF es = {} THEN s
    ELSE LET e == CHOOSE x \in es : TRUE
         IN  RetargetSlots(SetSlot(s, e[1], <<e[2], e[3]>>, src), es \ {e}, src)

\* every user of insn->target gets src; the entries move to src's use list
convert_instruction_target(s, i, src) ==
    LET target == s.insns[i].target
        lst    == UsersOf(s, target)
        s1     == RetargetSlots(s, BagToSet(lst), src)
        s2     == IF has_use_list(src)
                  THEN [s1 EXCEPT !.users[src] = @ (+) lst]
                  ELSE s1
    IN  IF has_use_list(target)
        THEN [s2 EXCEPT !.users[target] = EmptyBag]
        ELSE s2

\* opcode_table[op].negate
OpNegate(op) ==
    CASE op = "OP_SET_EQ" -> "OP_SET_NE" [] op = "OP_SET_NE" -> "OP_SET_EQ"
      [] op = "OP_SET_LE" -> "OP_SET_GT" [] op = "OP_SET_GT" -> "OP_SET_LE"
      [] op = "OP_SET_GE" -> "OP_SET_LT" [] op = "OP_SET_LT" -> "OP_SET_GE"
      [] op = "OP_SET_B"  -> "OP_SET_AE" [] op = "OP_SET_AE" -> "OP_SET_B"
      [] op = "OP_SET_A"  -> "OP_SET_BE" [] op = "OP_SET_BE" -> "OP_SET_A"
      [] op = "OP_FCMP_ORD" -> "OP_FCMP_UNO" [] op = "OP_FCMP_UNO" -> "OP_FCMP_ORD"
      [] op = "OP_FCMP_OEQ" -> "OP_FCMP_UNE" [] op = "OP_FCMP_UNE" -> "OP_FCMP_OEQ"
      [] op = "OP_FCMP_ONE" -> "OP_FCMP_UEQ" [] op = "OP_FCMP_UEQ" -> "OP_FCMP_ONE"
      [] op = "OP_FCMP_OLE" -> "OP_FCMP_UGT" [] op = "OP_FCMP_UGT" -> "OP_FCMP_OLE"
      [] op = "OP_FCMP_OGE" -> "OP_FCMP_ULT" [] op = "OP_FCMP_ULT" -> "OP_FCMP_OGE"
      [] op = "OP_FCMP_OLT" -> "OP_FCMP_UGE" [] op = "OP_FCMP_UGE" -> "OP_FCMP_OLT"
      [] op = "OP_FCMP_OGT" -> "OP_FCMP_ULE" [] op = "OP_FCMP_ULE" -> "OP_FCMP_OGT"
      [] OTHER -> "OP_BADOP"

\* opcode_table[op].swap
OpSwap(op) ==
    CASE op = "OP_SET_EQ" -> "OP_SET_EQ" [] op = "OP_SET_NE" -> "OP_SET_NE"
      [] op = "OP_SET_LE" -> "OP_SET_GE" [] op = "OP_SET_GE" -> "OP_SET_LE"
      [] op = "OP_SET_LT" -> "OP_SET_GT" [] op = "OP_SET_GT" -> "OP_SET_LT"
      [] op = "OP_SET_B"  -> "OP_SET_A"  [] op = "OP_SET_A"  -> "OP_SET_B"
      [] op = "OP_SET_BE" -> "OP_SET_AE" [] op = "OP_SET_AE" -> "OP_SET_BE"
      [] OTHER -> "OP_BADOP"

Warn(s, w) == [s EXCEPT !.warn = @ \cup {w}]

\* value_pseudo() of a word; the model's VALs are integers
value_pseudo(v) == VAL(v)

(***************************************************************************)
(* simplify.c, continued.                                                  *)
(***************************************************************************)
\* p->def read as an instruction: 0 is NULL (the VOID pseudo) or, for a SYM,
\* a struct symbol whose leading bits are no opcode the callers look for
DefInsn(s, p) ==
    IF p[1] \in {"REG", "PHI", "ARG"} THEN s.def[p] ELSE 0

dead_insn(s, i, a, b, c) ==
    IF has_users(s, s.insns[i].target) THEN Ret(s, {})
    ELSE LET s1 == [s EXCEPT !.insns[i].bb = 0]
         IN  Ret(kill_use(kill_use(kill_use(s1, i, a), i, b), i, c), REPEAT_CSE)

\* a replace_with_pseudo() that kills the instruction and leaves its users
\* on the old target
replace_keeping_users(s, i, pseudo) ==
    LET op == s.insns[i].opcode
        dn(x) == Ret([x EXCEPT !.insns[i].bb = 0], REPEAT_CSE)
    IN  CASE op \in {"OP_SEL", "OP_RANGE"} ->
               dn(kill_use(kill_use(kill_use(s, i, SRC3), i, SRC2), i, SRC1))
          [] op \in BinaryToBinCmpEnd ->
               dn(kill_use(kill_use(s, i, SRC2), i, SRC1))
          [] OTHER -> dn(kill_use(s, i, SRC1))

replace_with_pseudo(s, i, pseudo) ==
    Let(convert_instruction_target(s, i, pseudo), LAMBDA s1 :
    LET op == s1.insns[i].opcode
        dn(x) == Ret([x EXCEPT !.insns[i].bb = 0], REPEAT_CSE)
    IN  CASE op \in {"OP_SEL", "OP_RANGE"} ->
               dn(kill_use(kill_use(kill_use(s1, i, SRC3), i, SRC2), i, SRC1))
          [] op \in BinaryToBinCmpEnd ->
               dn(kill_use(kill_use(s1, i, SRC2), i, SRC1))
          [] op \in {"OP_NOT", "OP_NEG", "OP_SYMADDR"} \cup CastOps ->
               dn(kill_use(s1, i, SRC1))
          [] OTHER -> Abort(s1, "assert(0) in replace_with_pseudo"))

\* value >>= 8 etc. on a long long: the shifts are arithmetic
value_size(value) ==
    IF value \div 256 = 0 THEN 8
    ELSE IF value \div 65536 = 0 THEN 16
    ELSE IF (value \div 65536) \div 65536 = 0 THEN 32
    ELSE 64

operand_size(s, i, pseudo) ==
    LET size == s.insns[i].size
        d    == DefInsn(s, pseudo)
    IN  IF pseudo[1] = "REG" /\ d # 0 /\ s.insns[d].opcode = "OP_CAST"
           /\ s.insns[d].orig_type.kind # "null"
           /\ s.insns[d].orig_type.bit_size < size
        THEN s.insns[d].orig_type.bit_size
        ELSE IF pseudo[1] = "VAL" /\ value_size(pseudo[2]) < size
        THEN value_size(pseudo[2])
        ELSE size

simplify_asr(s, i, pseudo, value) ==
    IF value >= operand_size(s, i, pseudo)
    THEN replace_with_pseudo(Warn(s, "right shift by bigger than source value"),
                             i, value_pseudo(0))
    ELSE IF value = 0 THEN replace_with_pseudo(s, i, pseudo)
    ELSE Ret(s, {})

\* value & sbit, and (value | ~bits) == -1
SignBitSet(value, size) == (size - 1) \in BVOfInt(value)

LowBitsAllOnes(value, size) == LowBits(size) \subseteq BVOfInt(value)

simplify_mul_div(s, i, value) ==
    LET op   == s.insns[i].opcode
        size == s.insns[i].size
    IN  IF value = 1 THEN replace_with_pseudo(s, i, s.insns[i].src1)
        ELSE IF op = "OP_MUL" /\ value = 0
        THEN replace_with_pseudo(s, i, s.insns[i].src2)
        ELSE IF op \in {"OP_MUL", "OP_DIVS"} /\ SignBitSet(value, size)
                /\ LowBitsAllOnes(value, size)
        THEN Ret([s EXCEPT !.insns[i].opcode = "OP_NEG"], REPEAT_CSE)
        ELSE Ret(s, {})

simplify_seteq_setne(s, i, value) ==
    LET old == s.insns[i].src1
        d   == DefInsn(s, old)
    IN  IF value # 0 /\ value # 1 THEN Ret(s, {})
        ELSE IF d = 0 THEN Ret(s, {})
        ELSE
        LET inverse == ((s.insns[i].opcode = "OP_SET_NE") = (value = 1))
            opcode  == s.insns[d].opcode
        IN  IF opcode \in FpCmpOps \cup BinCmpOps
            THEN LET src1 == s.insns[d].src1
                     src2 == s.insns[d].src2
                     s1 == [s EXCEPT !.insns[i].opcode =
                                IF inverse THEN OpNegate(opcode) ELSE opcode]
                     s2 == use_pseudo(s1, i, src1, SRC1)
                     s3 == use_pseudo(s2, i, src2, SRC2)
                 IN  Ret(remove_usage(s3, old, i, SRC1), REPEAT_CSE)
            ELSE Ret(s, {})

simplify_constant_rightside(s, i) ==
    LET value == s.insns[i].src2[2]
        op    == s.insns[i].opcode
        neutral_zero == IF value = 0
                        THEN replace_with_pseudo(s, i, s.insns[i].src1)
                        ELSE Ret(s, {})
    IN  CASE op = "OP_OR_BOOL" ->
               IF value = 1 THEN replace_with_pseudo(s, i, s.insns[i].src2)
               ELSE neutral_zero
          [] op = "OP_SUB" ->
               IF value # 0
               THEN Ret([s EXCEPT !.insns[i].opcode = "OP_ADD",
                                  !.insns[i].src2 = value_pseudo(0 - value)],
                        REPEAT_CSE)
               ELSE neutral_zero
          [] op \in {"OP_ADD", "OP_OR", "OP_XOR", "OP_SHL", "OP_LSR"} ->
               neutral_zero
          [] op = "OP_ASR" -> simplify_asr(s, i, s.insns[i].src1, value)
          [] op \in {"OP_MODU", "OP_MODS"} ->
               IF value = 1 THEN replace_with_pseudo(s, i, value_pseudo(0))
               ELSE Ret(s, {})
          [] op \in {"OP_DIVU", "OP_DIVS", "OP_MUL"} -> simplify_mul_div(s, i, value)
          [] op = "OP_AND_BOOL" ->
               IF value = 1 THEN replace_with_pseudo(s, i, s.insns[i].src1)
               ELSE IF value = 0 THEN replace_with_pseudo(s, i, s.insns[i].src2)
               ELSE Ret(s, {})
          [] op = "OP_AND" ->
               IF value = 0 THEN replace_with_pseudo(s, i, s.insns[i].src2)
               ELSE Ret(s, {})
          [] op \in {"OP_SET_NE", "OP_SET_EQ"} -> simplify_seteq_setne(s, i, value)
          [] OTHER -> Ret(s, {})

simplify_constant_leftside(s, i) ==
    LET value == s.insns[i].src1[2]
        op    == s.insns[i].opcode
    IN  CASE op \in {"OP_ADD", "OP_OR", "OP_XOR"} ->
               IF value = 0 THEN replace_with_pseudo(s, i, s.insns[i].src2)
               ELSE Ret(s, {})
          [] op \in {"OP_SHL", "OP_LSR", "OP_ASR", "OP_AND", "OP_MUL"} ->
               IF value = 0 THEN replace_with_pseudo(s, i, s.insns[i].src1)
               ELSE Ret(s, {})
          [] OTHER -> Ret(s, {})

simplify_constant_binop(s, i) ==
    LET op  == s.insns[i].opcode
        res == eval_insn(op, s.insns[i].size, BVOfInt(s.insns[i].src1[2]),
                         BVOfInt(s.insns[i].src2[2]), s.und.shift)
        s0  == IF EvalHitsUndefined(op, s.insns[i].size,
                                    BVOfInt(s.insns[i].src2[2]))
               THEN [s EXCEPT !.undhit = @ \cup {"shift"}] ELSE s
    IN  Let(res, LAMBDA r :
            IF ~r.fold THEN Ret(s0, {})
            ELSE Ret(replace_with_pseudo(s0, i, value_pseudo(IntOfBV(r.value))),
                     REPEAT_CSE))

simplify_binop_same_args(s, i, arg) ==
    LET op == s.insns[i].opcode
    IN  CASE op \in {"OP_SET_NE", "OP_SET_LT", "OP_SET_GT", "OP_SET_B",
                     "OP_SET_A", "OP_SUB", "OP_XOR"} ->
               replace_with_pseudo(s, i, value_pseudo(0))
          [] op \in {"OP_SET_EQ", "OP_SET_LE", "OP_SET_GE", "OP_SET_BE",
                     "OP_SET_AE"} ->
               replace_with_pseudo(s, i, value_pseudo(1))
          [] op \in {"OP_AND", "OP_OR"} -> replace_with_pseudo(s, i, arg)
          [] op \in {"OP_AND_BOOL", "OP_OR_BOOL"} ->
               LET s1 == remove_usage(s, arg, i, SRC2)
               IN  Ret([s1 EXCEPT !.insns[i].src2 = value_pseudo(0),
                                  !.insns[i].opcode = "OP_SET_NE"], REPEAT_CSE)
          [] OTHER -> Ret(s, {})

simplify_binop(s, i) ==
    LET d == dead_insn(s, i, SRC1, SRC2, NOSLOT)
    IN  IF d.ret # {} THEN Ret(d, REPEAT_CSE)
        ELSE IF constant(s.insns[i].src1)
        THEN IF constant(s.insns[i].src2)
             THEN simplify_constant_binop(s, i)
             ELSE simplify_constant_leftside(s, i)
        ELSE IF constant(s.insns[i].src2) THEN simplify_constant_rightside(s, i)
        ELSE IF s.insns[i].src1 = s.insns[i].src2
        THEN simplify_binop_same_args(s, i, s.insns[i].src1)
        ELSE Ret(s, {})

switch_pseudo(s, i1, slot1, i2, slot2) ==
    LET p1 == GetSlot(s, i1, slot1)
        p2 == GetSlot(s, i2, slot2)
        s1 == use_pseudo(s, i1, p2, slot1)
        s2 == use_pseudo(s1, i2, p1, slot2)
        s3 == remove_usage(s2, p1, i1, slot1)
    IN  remove_usage(s3, p2, i2, slot2)

\* an order that never leaves a constant on the left
canonical_order_no_val_left(p1, p2) ==
    p1[1] # "VAL" /\ (p1[1] = "SYM" => p2[1] \in {"SYM", "VAL"})

canonical_order(p1, p2) ==
    IF p1[1] = "VAL" THEN p2[1] = "VAL"
    ELSE IF p1[1] = "SYM" THEN p2[1] = "SYM" \/ p2[1] = "VAL"
    ELSE TRUE

\* the operands change places and repeat_phase is left as it was
canonicalize_unsignalled(s, i) ==
    IF canonical_order(s.insns[i].src1, s.insns[i].src2) THEN Ret(s, {})
    ELSE Ret(switch_pseudo(s, i, SRC1, i, SRC2), {})

RepeatCse(s) ==
    LET s1 == [s EXCEPT !.repeat_phase = @ \cup REPEAT_CSE]
    IN  Ret(s1, s1.repeat_phase)

canonicalize_commutative(s, i) ==
    IF canonical_order(s.insns[i].src1, s.insns[i].src2) THEN Ret(s, {})
    ELSE RepeatCse(switch_pseudo(s, i, SRC1, i, SRC2))

\* the operands change places and the opcode stays
canonicalize_keeping_opcode(s, i) == canonicalize_commutative(s, i)

canonicalize_compare(s, i) ==
    IF canonical_order(s.insns[i].src1, s.insns[i].src2) THEN Ret(s, {})
    ELSE LET s1 == switch_pseudo(s, i, SRC1, i, SRC2)
         IN  RepeatCse([s1 EXCEPT !.insns[i].opcode = OpSwap(@)])

simple_pseudo(p) == p[1] = "VAL" \/ p[1] = "SYM"

simplify_associative_binop(s, i) ==
    LET pseudo == s.insns[i].src1
        d      == DefInsn(s, pseudo)
    IN  IF ~simple_pseudo(s.insns[i].src2) THEN Ret(s, {})
        ELSE IF pseudo[1] # "REG" THEN Ret(s, {})
        ELSE IF d = i THEN Ret(s, {})
        ELSE IF s.insns[d].opcode # s.insns[i].opcode THEN Ret(s, {})
        ELSE IF ~simple_pseudo(s.insns[d].src2) THEN Ret(s, {})
        ELSE IF pseudo_user_list_size(s, s.insns[d].target) # 1 THEN Ret(s, {})
        ELSE Ret(switch_pseudo(s, d, SRC1, i, SRC2), REPEAT_CSE)

\* ~val and -val on a long long, masked to the instruction's size
simplify_constant_unop(s, i) ==
    LET val  == BVOfInt(s.insns[i].src1[2])
        op   == s.insns[i].opcode
        bits == LowBits(s.insns[i].size)
        res  == IF op = "OP_NOT" THEN BVNot(val) ELSE BVNeg(val)
    IN  IF op \notin {"OP_NOT", "OP_NEG"} THEN Ret(s, {})
        ELSE Ret(replace_with_pseudo(s, i,
                     value_pseudo(IntOfBV(BVAnd(res, bits)))), REPEAT_CSE)

simplify_unop(s, i) ==
    LET d0 == dead_insn(s, i, SRC1, NOSLOT, NOSLOT)
        op == s.insns[i].opcode
        d  == DefInsn(s, s.insns[i].src1)
    IN  IF d0.ret # {} THEN Ret(d0, REPEAT_CSE)
        ELSE IF constant(s.insns[i].src1) THEN simplify_constant_unop(s, i)
        ELSE IF op \in {"OP_NOT", "OP_NEG"} /\ d # 0 /\ s.insns[d].opcode = op
        THEN replace_with_pseudo(s, i, s.insns[d].src1)
        ELSE Ret(s, {})

\* insn->offset += off->value, on an unsigned int
IntBits == 32

OffsetAdd(offset, value) == AddW(offset, BVOfInt(value), 0, IntBits)

simplify_one_memop(s, i, orig) ==
    LET addr == s.insns[i].src1
        d    == DefInsn(s, addr)
        dsrc1 == s.insns[d].src1
        dsrc2 == s.insns[d].src2
        both == REPEAT_CSE \cup REPEAT_SYMBOL_CLEANUP
        offset(new, off) ==
            IF new = orig /\ new = VOID THEN Ret(s, {})
            ELSE IF new = orig /\ "REPEAT_CFG_CLEANUP" \in s.repeat_phase
            THEN Ret(s, {})
            ELSE LET nw == IF new = orig THEN VOID ELSE new
                     s0 == IF new = orig THEN Warn(s, "crazy programmer") ELSE s
                     s1 == [s0 EXCEPT !.insns[i].offset = OffsetAdd(@, off[2])]
                     s2 == use_pseudo(s1, i, nw, SRC1)
                 IN  Ret(remove_usage(s2, addr, i, SRC1), both)
    IN  IF addr[1] # "REG" THEN Ret(s, {})
        ELSE IF s.insns[d].opcode = "OP_SYMADDR" /\ dsrc1 # NULLP
        THEN LET s1 == kill_use(s, i, SRC1)
             IN  Ret(use_pseudo(s1, i, s1.insns[d].src1, SRC1), both)
        ELSE IF s.insns[d].opcode = "OP_ADD"
        THEN IF constant(dsrc2) THEN offset(dsrc1, dsrc2)
             ELSE IF constant(dsrc1) THEN offset(dsrc2, dsrc1)
             ELSE Ret(s, {})
        ELSE Ret(s, {})

\* the do/while loop of simplify_memop(); the model gives up after
\* MaxMemopSteps successful steps and records it in s.abort
MaxMemopSteps == 6

RECURSIVE memop_loop(_, _, _, _, _)
memop_loop(s, i, orig, ret, n) ==
    LET s1 == simplify_one_memop(s, i, orig)
    IN  IF s1.ret = {} THEN Ret(s1, ret)
        ELSE IF n >= MaxMemopSteps
        THEN Abort(Ret(s1, ret \cup s1.ret), "simplify_memop: no end within MaxMemopSteps")
        ELSE memop_loop(s1, i, orig, ret \cup s1.ret, n + 1)

simplify_memop(s, i) == memop_loop(s, i, s.insns[i].src1, {}, 1)

\* (long long)(1 << k) for an int 1: k = 31 gives INT_MIN, a larger k is
\* undefined
IntShl1(k, und) ==
    LET r(j) == IF j < IntBits - 1 THEN {j} ELSE (IntBits - 1) .. (LLBits - 1)
    IN  IF k < IntBits THEN r(k)
        ELSE IF und = "modulo" THEN r(k % IntBits)
        ELSE {}

get_cast_value(val, old_size, new_size, sign, und) ==
    LET mask1 == IntShl1(old_size - 1, und)
        val1  == IF sign /\ new_size > old_size /\ BVAnd(val, mask1) # {}
                 THEN BVOr(val, BVNot(BVOr(mask1, BVSub(mask1, BVOne))))
                 ELSE val
        mask2 == IntShl1(new_size - 1, und)
    IN  BVAnd(val1, BVOr(mask2, BVSub(mask2, BVOne)))

simplify_cast(s, i) ==
    LET d0        == dead_insn(s, i, SRC1, NOSLOT, NOSLOT)
        orig_type == s.insns[i].orig_type
        orig_size == orig_type.bit_size
        size      == s.insns[i].size
        src       == s.insns[i].src1
        d         == DefInsn(s, src)
    IN  IF d0.ret # {} THEN Ret(d0, REPEAT_CSE)
        ELSE IF orig_type.kind = "null" THEN Ret(s, {})
        ELSE IF orig_type.kind = "ptr" \/ s.insns[i].type.kind = "ptr"
        THEN Ret(s, {})
        ELSE IF orig_type.kind = "float" /\ s.insns[i].type.kind # "float"
        THEN Ret(s, {})
        ELSE IF constant(src)
        THEN replace_with_pseudo(
                 IF orig_size > IntBits \/ size > IntBits
                 THEN [s EXCEPT !.undhit = @ \cup {"shift"}] ELSE s,
                 i,
                 value_pseudo(IntOfBV(get_cast_value(BVOfInt(src[2]), orig_size,
                                          size, orig_type.signed, s.und.shift))))
        ELSE IF /\ src[1] = "REG"
                /\ s.insns[d].opcode = "OP_AND"
                /\ s.insns[d].size >= size
                /\ s.insns[d].src2[1] = "VAL"
                /\ LsrK(BVOfInt(s.insns[d].src2[2]), size - 1) = {}
        THEN replace_with_pseudo(s, i, src)
        ELSE IF /\ size = orig_size
                /\ \/ s.insns[i].opcode =
                        (IF orig_type.signed THEN "OP_SCAST" ELSE "OP_CAST")
                   \/ s.insns[i].opcode = "OP_FPCAST" /\ orig_type.kind = "float"
        THEN replace_with_pseudo(s, i, src)
        ELSE Ret(s, {})

\* a condition that selects the first arm whatever its value
value_taken_nonzero(p) == TRUE

\* cond->value of a pseudo that need not be a VAL: the union holds a
\* non-null pointer for every pseudo but VOID
ValueNonZero(p) == IF p[1] = "VAL" THEN p[2] # 0 ELSE p[1] # "VOID"

simplify_select(s, i) ==
    LET d0   == dead_insn(s, i, SRC1, SRC2, SRC3)
        cond == s.insns[i].src1
        src1 == s.insns[i].src2
        src2 == s.insns[i].src3
    IN  IF d0.ret # {} THEN Ret(d0, REPEAT_CSE)
        ELSE IF constant(cond) \/ src1 = src2
        THEN LET s1   == kill_use(s, i, SRC1)
                 take == IF ValueNonZero(cond) THEN src1 ELSE src2
                 kill == IF ValueNonZero(cond) THEN SRC3 ELSE SRC2
             IN  Ret(replace_with_pseudo(kill_use(s1, i, kill), i, take), REPEAT_CSE)
        ELSE IF /\ constant(src1) /\ constant(src2)
                /\ BVOr(BVOfInt(src1[2]), BVOfInt(src2[2])) = BVOne
        THEN Ret([s EXCEPT !.insns[i].opcode =
                               IF src1[2] # 0 THEN "OP_SET_NE" ELSE "OP_SET_EQ",
                           !.insns[i].src2 =
                               IF src1[2] # 0 THEN src2 ELSE src1], REPEAT_CSE)
        ELSE IF cond = src2 /\ is_zero(src1)
        THEN LET s1 == kill_use(kill_use(s, i, SRC1), i, SRC3)
             IN  Ret(replace_with_pseudo(s1, i, value_pseudo(0)), REPEAT_CSE)
        ELSE Ret(s, {})

is_in_range(src, low, high) ==
    src[1] = "VAL" /\ src[2] >= low /\ src[2] <= high

simplify_range(s, i) ==
    LET src1 == s.insns[i].src1
        src2 == s.insns[i].src2
        src3 == s.insns[i].src3
    IN  IF src2[1] # "VAL" \/ src3[1] # "VAL" THEN Ret(s, {})
        ELSE IF is_in_range(src1, src2[2], src3[2])
        THEN Ret(kill_instruction(s, i), REPEAT_CSE)
        ELSE Ret(s, {})

(***************************************************************************)
(* Control flow: basic blocks are [parents, children, insns] lists.        *)
(***************************************************************************)
RECURSIVE RemoveFirst(_, _)
RemoveFirst(seq, x) ==
    IF seq = <<>> THEN <<>>
    ELSE IF Head(seq) = x THEN Tail(seq)
    ELSE <<Head(seq)>> \o RemoveFirst(Tail(seq), x)

InSeq(seq, x) == \E k \in 1 .. Len(seq) : seq[k] = x

\* remove_bb_from_list(list, entry, 1): a missing entry fails the list's assert
remove_bb_from_list(s, bb, field, entry) ==
    LET list == IF field = "parents" THEN s.blocks[bb].parents
                ELSE s.blocks[bb].children
    IN  IF ~InSeq(list, entry) THEN Abort(s, "assert: block not in list")
        ELSE IF field = "parents"
        THEN [s EXCEPT !.blocks[bb].parents = RemoveFirst(@, entry)]
        ELSE [s EXCEPT !.blocks[bb].children = RemoveFirst(@, entry)]

\* flow.h remove_parent()
remove_parent(s, child, parent) ==
    LET s1 == remove_bb_from_list(s, child, "parents", parent)
    IN  IF s1.blocks[child].parents = <<>>
        THEN [s1 EXCEPT !.repeat_phase = @ \cup REPEAT_CFG_CLEANUP]
        ELSE s1

RECURSIVE PruneChildren(_, _, _, _, _)
PruneChildren(s, bb, rest, target, kept) ==
    IF rest = <<>> THEN [s EXCEPT !.blocks[bb].children = kept]
    ELSE LET child == Head(rest)
         IN  IF child = target
             THEN PruneChildren(s, bb, Tail(rest), 0, Append(kept, child))
             ELSE PruneChildren(remove_parent(s, child, bb), bb, Tail(rest),
                                target, kept)

\* flow.c insert_branch(): the terminator jmp of bb becomes "br target"
insert_branch(s, bb, jmp, target) ==
    LET lst == s.blocks[bb].insns
        old == IF lst = <<>> THEN 0 ELSE lst[Len(lst)]
    IN  IF old # jmp THEN Abort(s, "assert(old == jmp)")
        ELSE
        LET s1 == [s EXCEPT !.blocks[bb].insns = SubSeq(lst, 1, Len(lst) - 1)]
            s2 == kill_instruction(s1, old)
            br == Len(s2.insns) + 1
            s3 == [s2 EXCEPT
                     !.insns = Append(@,
                         [Insn("OP_BR", bb, 0, NULLP, NULLP, NULLP, NULLP)
                              EXCEPT !.bb_true = target]),
                     !.blocks[bb].insns = Append(@, br)]
        IN  PruneChildren(s3, bb, s3.blocks[bb].children, target, <<>>)

\* linearize.c insert_select(): "select cond, if_true, if_false" goes before
\* br and takes over the phi node's target
insert_select(s, bb, br, phi_node, if_true, if_false) ==
    LET lst    == s.blocks[bb].insns
        sel    == Len(s.insns) + 1
        target == s.insns[phi_node].target
        s1 == [s EXCEPT
                 !.insns = Append(@, Insn("OP_SEL", bb, s.insns[phi_node].size,
                                          target, NULLP, NULLP, NULLP)),
                 !.blocks[bb].insns = SubSeq(lst, 1, Len(lst) - 1)]
        s2 == use_pseudo(s1, sel, s1.insns[br].src1, SRC1)
        s3 == [s2 EXCEPT !.def[target] = sel]
        s4 == use_pseudo(use_pseudo(s3, sel, if_true, SRC2), sel, if_false, SRC3)
    IN  IF s.def[target] # phi_node THEN Abort(s, "assert(target->def == phi_node)")
        ELSE [s4 EXCEPT !.blocks[bb].insns = @ \o <<sel, br>>]

simplify_cond_branch(s, br, cond, d, slot) ==
    LET s1 == use_pseudo(s, br, GetSlot(s, d, slot), SRC1)
        s2 == remove_usage(s1, cond, br, SRC1)
    IN  Ret(IF s.insns[d].opcode = "OP_SET_EQ"
            THEN [s2 EXCEPT !.insns[br].bb_true = s2.insns[br].bb_false,
                            !.insns[br].bb_false = s2.insns[br].bb_true]
            ELSE s2, REPEAT_CSE)

simplify_branch(s, i) ==
    LET insn == s.insns[i]
        cond == insn.src1
        d    == DefInsn(s, cond)
        def  == s.insns[d]
    IN  IF constant(cond)
        THEN Ret(insert_branch(s, insn.bb, i,
                     IF cond[2] # 0 THEN insn.bb_true ELSE insn.bb_false),
                 REPEAT_CSE)
        ELSE IF insn.bb_true = insn.bb_false
        THEN LET s1 == remove_bb_from_list(s, insn.bb_false, "parents", insn.bb)
                 s2 == remove_bb_from_list(s1, insn.bb, "children", insn.bb_false)
                 s3 == kill_use([s2 EXCEPT !.insns[i].bb_false = 0], i, SRC1)
             IN  Ret([s3 EXCEPT !.insns[i].src1 = NULLP,
                                !.insns[i].opcode = "OP_BR"], REPEAT_CSE)
        ELSE IF cond[1] # "REG" THEN Ret(s, {})
        ELSE IF /\ def.opcode \in {"OP_SET_NE", "OP_SET_EQ"}
                /\ is_zero(def.src1)
        THEN simplify_cond_branch(s, i, cond, d, SRC2)
        ELSE IF /\ def.opcode \in {"OP_SET_NE", "OP_SET_EQ"}
                /\ is_zero(def.src2)
        THEN simplify_cond_branch(s, i, cond, d, SRC1)
        ELSE IF /\ def.opcode = "OP_SEL"
                /\ constant(def.src2) /\ constant(def.src3)
        THEN LET val1 == def.src2[2]
                 val2 == def.src3[2]
             IN  IF val1 = 0 /\ val2 = 0
                 THEN Ret(insert_branch(s, insn.bb, i, insn.bb_false), REPEAT_CSE)
                 ELSE IF val1 # 0 /\ val2 # 0
                 THEN Ret(insert_branch(s, insn.bb, i, insn.bb_true), REPEAT_CSE)
                 ELSE LET s1 == IF val2 # 0
                                THEN [s EXCEPT !.insns[i].bb_true = insn.bb_false,
                                               !.insns[i].bb_false = insn.bb_true]
                                ELSE s
                          s2 == use_pseudo(s1, i, def.src1, SRC1)
                      IN  Ret(remove_usage(s2, cond, i, SRC1), REPEAT_CSE)
        ELSE IF /\ def.opcode \in {"OP_CAST", "OP_SCAST"}
                /\ def.size > (IF def.orig_type.kind = "null" THEN 0
                               ELSE def.orig_type.bit_size)
        THEN LET s2 == use_pseudo(s, i, def.src1, SRC1)
             IN  Ret(remove_usage(s2, cond, i, SRC1), REPEAT_CSE)
        ELSE Ret(s, {})

\* the last entry of the list that is the default case or holds val
find_last_jmp(list, val, k) ==
    LET hits == {j \in k .. Len(list) :
                    \/ list[j].begin > list[j].end
                    \/ val >= list[j].begin /\ val <= list[j].end}
    IN  IF hits = {} THEN 0 ELSE CHOOSE j \in hits : \A h \in hits : h <= j

\* the first entry of the list that is the default case (begin > end) or
\* whose range holds val; 0 when the loop runs off the end
RECURSIVE FindJmp(_, _, _)
FindJmp(list, val, k) ==
    IF k > Len(list) THEN 0
    ELSE IF list[k].begin > list[k].end THEN k
    ELSE IF val >= list[k].begin /\ val <= list[k].end THEN k
    ELSE FindJmp(list, val, k + 1)

simplify_switch(s, i) ==
    LET cond == s.insns[i].src1
        list == s.insns[i].multijmp_list
        k    == FindJmp(list, cond[2], 1)
    IN  IF ~constant(cond) THEN Ret(s, {})
        ELSE IF k = 0 THEN Ret(Warn(s, "Impossible case statement"), {})
        ELSE Ret(insert_branch(s, s.insns[i].bb, i, list[k].target), REPEAT_CSE)

(***************************************************************************)
(* The phi-node handler.                                                   *)
(***************************************************************************)
phi_parent(s, source, pseudo) ==
    IF pseudo[1] = "REG" /\ s.insns[s.def[pseudo]].bb = source THEN source
    ELSE IF Len(s.blocks[source].children) # 1 \/ Len(s.blocks[source].parents) # 1
    THEN source
    ELSE s.blocks[source].parents[1]

\* the defining phi-sources of the non-VOID entries of the phi list
get_phisources(s, i) ==
    LET live == SelectSeq(s.insns[i].phi_list, LAMBDA p : p # VOID)
    IN  [k \in 1 .. Len(live) |-> s.def[live[k]]]

\* arms taken in the order of the phi list, whatever the branch does
never_swap_arms(s, br, bb1, bb2) == FALSE

\* if (br->bb_true == bb2 || br->bb_false == bb1): p1 and p2 change places
SwapArms(s, br, bb1, bb2) ==
    s.insns[br].bb_true = bb2 \/ s.insns[br].bb_false = bb1

if_convert_phi(s, i) ==
    LET bb      == s.insns[i].bb
        array   == get_phisources(s, i)
        parents == s.blocks[bb].parents
        p1  == s.insns[array[1]].src1
        bb1 == s.insns[array[1]].bb
        p2  == s.insns[array[2]].src1
        bb2 == s.insns[array[2]].bb
        source == phi_parent(s, bb1, p1)
        lst == s.blocks[source].insns
        br  == IF lst = <<>> THEN 0 ELSE lst[Len(lst)]
        swap == SwapArms(s, br, bb1, bb2)
        s1  == insert_select(s, source, br, i, IF swap THEN p2 ELSE p1,
                             IF swap THEN p1 ELSE p2)
    IN  IF Len(array) # 2 THEN Ret(s, {})
        ELSE IF Len(parents) # 2 THEN Ret(s, {})
        ELSE IF (bb1 # parents[1] \/ bb2 # parents[2])
                /\ (bb1 # parents[2] \/ bb2 # parents[1])
        THEN Ret(s, {})
        ELSE IF source # phi_parent(s, bb2, p2) THEN Ret(s, {})
        ELSE IF br = 0 \/ s.insns[br].opcode # "OP_CBR" THEN Ret(s, {})
        ELSE Ret(kill_instruction(s1, i), REPEAT_CSE)

\* the loop of clean_up_phi(): the first live source, and whether every
\* live source carries the same pseudo
RECURSIVE PhiScan(_, _, _, _, _)
PhiScan(s, list, k, last, same) ==
    IF k > Len(list) THEN [last |-> last, same |-> same]
    ELSE IF list[k] = VOID THEN PhiScan(s, list, k + 1, last, same)
    ELSE LET d == s.def[list[k]]
         IN  IF s.insns[d].src1 = VOID \/ s.insns[d].bb = 0
             THEN PhiScan(s, list, k + 1, last, same)
             ELSE IF last # 0
             THEN PhiScan(s, list, k + 1, last,
                          same /\ s.insns[last].src1 = s.insns[d].src1)
             ELSE PhiScan(s, list, k + 1, d, same)

clean_up_phi(s, i) ==
    LET r == PhiScan(s, s.insns[i].phi_list, 1, 0, TRUE)
        pseudo == IF r.last # 0 THEN s.insns[r.last].src1 ELSE VOID
    IN  IF r.same
        THEN Ret(kill_instruction(convert_instruction_target(s, i, pseudo), i),
                 REPEAT_CSE)
        ELSE if_convert_phi(s, i)

(***************************************************************************)
(* The dispatcher.                                                         *)
(***************************************************************************)
simplify_instruction(s, i) ==
    LET op == s.insns[i].opcode
    IN  IF s.insns[i].bb = 0 THEN Ret(s, {})
        ELSE
        CASE op \in {"OP_ADD", "OP_MUL", "OP_AND", "OP_OR", "OP_XOR",
                     "OP_AND_BOOL", "OP_OR_BOOL"} ->
               Let(simplify_binop(canonicalize_commutative(s, i), i), LAMBDA s1 :
                   IF s1.ret # {} THEN Ret(s1, REPEAT_CSE)
                   ELSE simplify_associative_binop(s1, i))
          [] op \in {"OP_SET_EQ", "OP_SET_NE"} ->
               simplify_binop(canonicalize_commutative(s, i), i)
          [] op \in {"OP_SET_LE", "OP_SET_GE", "OP_SET_LT", "OP_SET_GT",
                     "OP_SET_B", "OP_SET_A", "OP_SET_BE", "OP_SET_AE"} ->
               simplify_binop(canonicalize_compare(s, i), i)
          [] op \in {"OP_SUB", "OP_DIVU", "OP_DIVS", "OP_MODU", "OP_MODS",
                     "OP_SHL", "OP_LSR", "OP_ASR"} ->
               simplify_binop(s, i)
          [] op \in {"OP_NOT", "OP_NEG"} -> simplify_unop(s, i)
          [] op = "OP_LOAD" ->
               IF ~has_users(s, s.insns[i].target) THEN kill_instruction(s, i)
               ELSE simplify_memop(s, i)
          [] op = "OP_STORE" -> simplify_memop(s, i)
          [] op = "OP_SYMADDR" ->
               LET d == dead_insn(s, i, NOSLOT, NOSLOT, NOSLOT)
               IN  IF d.ret # {}
                   THEN Ret(d, REPEAT_CSE \cup REPEAT_SYMBOL_CLEANUP)
                   ELSE replace_with_pseudo(s, i, s.insns[i].src1)
          [] op \in CastOps -> simplify_cast(s, i)
          [] op = "OP_PHI" ->
               LET d == dead_insn(s, i, NOSLOT, NOSLOT, NOSLOT)
               IN  IF d.ret # {}
                   THEN Ret(kill_use_list(d, i, "phi_list", 1), REPEAT_CSE)
                   ELSE clean_up_phi(s, i)
          [] op = "OP_PHISOURCE" ->
               LET d == dead_insn(s, i, SRC1, NOSLOT, NOSLOT)
               IN  IF d.ret # {} THEN Ret(d, REPEAT_CSE) ELSE Ret(s, {})
          [] op = "OP_SEL" -> simplify_select(s, i)
          [] op = "OP_CBR" -> simplify_branch(s, i)
          [] op = "OP_SWITCH" -> simplify_switch(s, i)
          [] op = "OP_RANGE" -> simplify_range(s, i)
          [] OTHER -> Ret(s, {})

(***************************************************************************)
(* The program state.  insns / users / def / blocks are the IR of one      *)
(* function, repeat_phase the global of that name; ret, warn and abort are *)
(* the return value, the warnings and the failed assertion or fault of the *)
(* most recent call; last names that call; clobbered holds the symbols     *)
(* written over by an undefined kill; ev is the evaluator's operands and   *)
(* result; pass is the driver's position.                                  *)
(***************************************************************************)
VARIABLES insns, users, def, blocks, repeat_phase, ret, warn, abort,
          clobbered, last, ev, pass

vars == <<insns, users, def, blocks, repeat_phase, ret, warn, abort,
          clobbered, last, ev, pass>>

irvars == <<insns, users, def, blocks>>

Und == [shift : UndShift, symdef : UndSymDef]

Und0 == [shift |-> "modulo", symdef |-> "ignored"]

\* the state a call starts from
IR(u) ==
    [insns |-> insns, users |-> users, def |-> def, blocks |-> blocks,
     repeat_phase |-> repeat_phase, ret |-> {}, warn |-> {}, abort |-> {},
     clobbered |-> clobbered, und |-> u, undhit |-> {}]

\* the outcomes of a call: one, unless it executed an undefined operation
Outcomes(F(_)) ==
    LET r0 == F(IR(Und0))
    IN  IF r0.undhit = {} THEN {r0} ELSE {F(IR(u)) : u \in Und}

\* the state a call leaves; a failed assertion or a fault ends the process
Commit(r) ==
    IF r.abort # {}
    THEN /\ abort' = r.abort
         /\ ret' = {}
         /\ UNCHANGED <<insns, users, def, blocks, repeat_phase, warn, clobbered>>
    ELSE /\ insns' = r.insns
         /\ users' = r.users
         /\ def' = r.def
         /\ blocks' = r.blocks
         /\ repeat_phase' = r.repeat_phase
         /\ ret' = r.ret
         /\ warn' = r.warn
         /\ abort' = {}
         /\ clobbered' = r.clobbered

(***************************************************************************)
(* What the IR builder hands to the simplifier: every operand slot bound   *)
(* with use_pseudo(), every REG / PHI target defined by its instruction,   *)
(* every ARG by the entry instruction (insns[1]).                          *)
(***************************************************************************)
\* the operand slots of an instruction (the target of a store is a use)
OperandSlots(insn) ==
    {SRC1, SRC2, SRC3}
        \cup (IF insn.opcode = "OP_STORE" THEN {TARGET} ELSE {})
        \cup {PhiSlot(k) : k \in 1 .. Len(insn.phi_list)}
        \cup {ArgSlot(k) : k \in 1 .. Len(insn.arguments)}

SlotOf(insn, slot) ==
    CASE slot[1] = "src1"      -> insn.src1
      [] slot[1] = "src2"      -> insn.src2
      [] slot[1] = "src3"      -> insn.src3
      [] slot[1] = "target"    -> insn.target
      [] slot[1] = "phi_list"  -> insn.phi_list[slot[2]]
      [] slot[1] = "arguments" -> insn.arguments[slot[2]]

\* the pseudo_user entries the operand slots of `list' amount to
UsesIn(list) ==
    UNION {{<<i, sl[1], sl[2]>> :
               sl \in {x \in OperandSlots(list[i]) :
                          has_use_list(SlotOf(list[i], x))}} :
           i \in DOMAIN list}

PseudosIn(list) ==
    {p \in {SlotOf(list[e[1]], <<e[2], e[3]>>) : e \in UsesIn(list)}
           \cup {list[i].target : i \in DOMAIN list} : has_use_list(p)}

BuildUsers(list) ==
    [p \in PseudosIn(list) |->
        SetToBag({e \in UsesIn(list) : SlotOf(list[e[1]], <<e[2], e[3]>>) = p})]

BuildDef(list) ==
    [p \in {q \in PseudosIn(list) : q[1] \in {"REG", "PHI", "ARG"}} |->
        IF p[1] = "ARG" THEN 1
        ELSE CHOOSE i \in DOMAIN list :
                list[i].target = p /\ list[i].opcode # "OP_STORE"]

Block(parents, children, list) ==
    [parents |-> parents, children |-> children, insns |-> list]

Prog(list, blks) == [insns |-> list, blocks |-> blks]

OneBlock(list) == Prog(list, [b \in {1} |-> Block(<<>>, <<>>, [k \in DOMAIN list |-> k])])

(***************************************************************************)
(* The programs the model starts from.  Instruction 1 is the entry; the    *)
(* target of instruction k is %rk.                                         *)
(***************************************************************************)
InsnSize == 8

MaxVal == 1

Vals == (0 - 1) .. MaxVal

Leaves == {ARG(1), SYM(1)} \cup {VAL(v) : v \in Vals}

Entry == Insn("OP_ENTRY", 1, 0, NULLP, NULLP, NULLP, NULLP)

Bin(op, k, x, y) == Insn(op, 1, InsnSize, REG(k), x, y, NULLP)

Un(op, k, x) == Insn(op, 1, InsnSize, REG(k), x, NULLP, NULLP)

RetInsn(bb, w) == Insn("OP_RET", bb, InsnSize, NULLP, w, NULLP, NULLP)

BinSample == {"OP_ADD", "OP_SUB", "OP_MUL", "OP_DIVS", "OP_ASR", "OP_AND",
              "OP_OR_BOOL", "OP_SET_EQ", "OP_SET_NE", "OP_SET_LT", "OP_SET_B"}

UnSample == {"OP_NOT", "OP_NEG", "OP_FNEG"}

\* %r2 <- op leaf, leaf
FirstInsns ==
    {Bin(op, 2, x, y) : op \in BinSample, x \in Leaves, y \in Leaves}
        \cup {Un(op, 2, x) : op \in UnSample, x \in Leaves}
        \cup {Un("OP_SYMADDR", 2, SYM(1))}

\* %r3 <- op with %r2 among its operands
SecondInsns ==
    {Bin(op, 3, REG(2), y) : op \in BinSample, y \in Leaves \cup {REG(2)}}
        \cup {Bin(op, 3, x, REG(2)) : op \in BinSample, x \in Leaves}
        \cup {Un(op, 3, REG(2)) : op \in UnSample}

FirstFew ==
    {Bin("OP_ADD", 2, ARG(1), VAL(1)), Bin("OP_ADD", 2, ARG(1), SYM(1)),
     Bin("OP_SET_LT", 2, ARG(1), ARG(1)), Un("OP_NOT", 2, ARG(1)),
     Un("OP_FNEG", 2, ARG(1)), Un("OP_SYMADDR", 2, SYM(1))}

SecondFew ==
    {Bin("OP_ADD", 3, REG(2), VAL(1)), Bin("OP_ADD", 3, REG(2), SYM(1)),
     Bin("OP_SET_NE", 3, REG(2), VAL(0)), Bin("OP_SET_EQ", 3, VAL(0), REG(2)),
     Un("OP_NOT", 3, REG(2)), Un("OP_FNEG", 3, REG(2))}

\* two dependent instructions and a return, in one block
ExprPrograms ==
    {OneBlock(<<Entry, ab[1], ab[2], RetInsn(1, w)>>) :
        ab \in (FirstInsns \X SecondFew) \cup (FirstFew \X SecondInsns),
        w \in {REG(3), VAL(0)}}

Cast(op, k, x, orig_type, kind) ==
    [Insn(op, 1, InsnSize, REG(k), x, NULLP, NULLP)
        EXCEPT !.orig_type = orig_type, !.type = Type(kind, InsnSize, FALSE, FALSE)]

OrigTypes ==
    {NullType} \cup
    {Type(kind, bs, sg, FALSE) :
        kind \in {"int", "ptr", "float"}, bs \in {InsnSize - 4, InsnSize},
        sg \in BOOLEAN}

CastInsns ==
    {Cast(op, 3, x, ot, kind) :
        op \in CastOps, x \in {REG(2), ARG(1), VAL(1), VAL(0 - 1)},
        ot \in OrigTypes, kind \in {"int", "ptr"}}

\* a cast of a masked value or of a leaf, and a shift or a branch-like use
CastPrograms ==
    {OneBlock(<<Entry, a, b, c, RetInsn(1, REG(4))>>) :
        a \in {Bin("OP_AND", 2, ARG(1), VAL(1)), Bin("OP_AND", 2, ARG(1), VAL(0 - 1))},
        b \in CastInsns,
        c \in {Bin("OP_ASR", 4, REG(3), VAL(InsnSize - 4)), Un("OP_NEG", 4, REG(2))}}

Load(k, addr, volatile) ==
    [Insn("OP_LOAD", 1, InsnSize, REG(k), addr, NULLP, NULLP)
        EXCEPT !.type = Type("int", InsnSize, FALSE, volatile)]

Store(value, addr) ==
    Insn("OP_STORE", 1, InsnSize, value, addr, NULLP, NULLP)

AddrInsns(k, base) ==
    {Un("OP_SYMADDR", k, SYM(1))} \cup
    {Bin("OP_ADD", k, base, VAL(MaxVal)), Bin("OP_ADD", k, VAL(MaxVal), base),
     Bin("OP_ADD", k, base, ARG(1))}

\* an address computed in two steps, and a load or a store through it
MemPrograms ==
    {OneBlock(<<Entry, a, b, m, RetInsn(1, w)>>) :
        a \in AddrInsns(2, ARG(1)) \cup AddrInsns(2, SYM(1)),
        b \in AddrInsns(3, REG(2)),
        m \in {Load(4, addr, vol) : addr \in {REG(2), REG(3)}, vol \in BOOLEAN}
                 \cup {Store(v, addr) : v \in {REG(2), ARG(1), VAL(0)},
                                        addr \in {REG(2), REG(3)}},
        w \in {VAL(0), REG(3)}}
    \cup
    {OneBlock(<<Entry, a, b, Load(4, REG(3), vol), RetInsn(1, REG(4))>>) :
        a \in AddrInsns(2, ARG(1)), b \in AddrInsns(3, REG(2)), vol \in BOOLEAN}

Call(k, func, args) ==
    [Insn("OP_CALL", 1, InsnSize, REG(k), func, NULLP, NULLP)
        EXCEPT !.arguments = args]

\* a call whose result is used once, by an instruction that may be dead
CallPrograms ==
    {OneBlock(<<Entry, a, Call(3, f, args), u, RetInsn(1, w)>>) :
        a \in {Bin("OP_ADD", 2, ARG(1), VAL(1)), Un("OP_SYMADDR", 2, SYM(2)),
               Load(2, ARG(1), FALSE)},
        f \in {SYM(1), SYM(2), REG(2)},
        args \in {<<>>, <<REG(2)>>, <<ARG(1), REG(2)>>, <<VAL(1), SYM(1)>>},
        u \in {Un("OP_NOT", 4, REG(3)), Un("OP_FNEG", 4, REG(3)),
               Bin("OP_ADD", 4, REG(3), REG(2))},
        w \in {VAL(0), REG(4)}}

\* an instruction placed in block bb
InBlock(insn, bb) == [insn EXCEPT !.bb = bb]

Cbr(bb, cond, bt, bf) ==
    [Insn("OP_CBR", bb, 0, NULLP, cond, NULLP, NULLP)
        EXCEPT !.bb_true = bt, !.bb_false = bf]

Br(bb, target) ==
    [Insn("OP_BR", bb, 0, NULLP, NULLP, NULLP, NULLP) EXCEPT !.bb_true = target]

Switch(bb, cond, list) ==
    [Insn("OP_SWITCH", bb, 0, NULLP, cond, NULLP, NULLP)
        EXCEPT !.multijmp_list = list]

Sel(k, c, x, y) == Insn("OP_SEL", 1, InsnSize, REG(k), c, x, y)

PhiSource(bb, k, v) == Insn("OP_PHISOURCE", bb, InsnSize, PHI(k), v, NULLP, NULLP)

PhiNode(bb, k, list) ==
    [Insn("OP_PHI", bb, InsnSize, REG(k), NULLP, NULLP, NULLP)
        EXCEPT !.phi_list = list]

\* one entry `from' for every edge of `targets' that goes to bb
ParentsFrom(targets, bb, from) ==
    SelectSeq([k \in DOMAIN targets |-> IF targets[k] = bb THEN from ELSE 0],
              LAMBDA x : x # 0)

\* %r2 as a branch condition
CondDefs ==
    {Bin(op, 2, x, y) : op \in {"OP_SET_NE", "OP_SET_EQ"},
                        x \in {ARG(1), VAL(0)}, y \in {ARG(1), VAL(0), VAL(1)}}
        \cup {Sel(2, ARG(1), VAL(x), VAL(y)) : x \in 0 .. 1, y \in 0 .. 1}
        \cup {Sel(2, ARG(1), ARG(1), VAL(0)), Bin("OP_ADD", 2, ARG(1), VAL(1))}
        \cup {Cast(op, 2, ARG(1), Type("int", bs, FALSE, FALSE), "int") :
                 op \in {"OP_CAST", "OP_SCAST"}, bs \in {InsnSize - 4, InsnSize}}

\* block 1 ends in a conditional branch to the returns of blocks 2 and 3
BranchPrograms ==
    {Prog(<<Entry, a, Cbr(1, c, tf[1], tf[2]), RetInsn(2, w), RetInsn(3, VAL(0))>>,
          [b \in 1 .. 3 |->
             IF b = 1 THEN Block(<<>>, tf, <<1, 2, 3>>)
             ELSE Block(ParentsFrom(tf, b, 1), <<>>, <<b + 2>>)]) :
        a \in CondDefs, c \in {REG(2), ARG(1), VAL(0), VAL(1)},
        tf \in {<<2, 3>>, <<3, 2>>, <<2, 2>>}, w \in {VAL(0), REG(2)}}

\* a select, or a range check, over a computed value and the leaves
SelPrograms ==
    {OneBlock(<<Entry, a, b, RetInsn(1, w)>>) :
        a \in {Bin("OP_SET_LT", 2, ARG(1), VAL(1)), Un("OP_SYMADDR", 2, SYM(1))},
        b \in {Sel(3, c, x, y) : c \in {REG(2), ARG(1), VAL(0), VAL(1)},
                                 x \in {REG(2), ARG(1), VAL(0), VAL(1)},
                                 y \in {REG(2), ARG(1), VAL(0), VAL(1)}}
              \cup {Insn("OP_RANGE", 1, InsnSize, NULLP, c, VAL(0), y) :
                       c \in {REG(2), VAL(0), VAL(MaxVal + 1)},
                       y \in {VAL(MaxVal), ARG(1)}},
        w \in {REG(3), VAL(0)}}

Case(begin, end, target) == [target |-> target, begin |-> begin, end |-> end]

\* range cases to blocks 2 and 3, and the default case (begin > end) to block 4
Cases ==
    {Case(0, 0, 2), Case(1, MaxVal + 1, 3), Case(0, 1, 3), Case(1, 0, 4)}

\* the case lists: up to MaxCases different cases, in every order
MaxCases == 3

CaseLists ==
    {l \in UNION {[1 .. n -> Cases] : n \in 1 .. MaxCases} :
        \A j, k \in DOMAIN l : l[j] = l[k] => j = k}

\* block 1 ends in a switch; blocks 2, 3 and 4 return
SwitchPrograms ==
    {Prog(<<Entry, Bin("OP_ADD", 2, ARG(1), VAL(1)), Switch(1, c, l),
            RetInsn(2, VAL(0)), RetInsn(3, VAL(0)), RetInsn(4, w)>>,
          [b \in 1 .. 4 |->
             IF b = 1 THEN Block(<<>>, [k \in DOMAIN l |-> l[k].target], <<1, 2, 3>>)
             ELSE Block(ParentsFrom([k \in DOMAIN l |-> l[k].target], b, 1),
                        <<>>, <<b + 2>>)]) :
        c \in {VAL(v) : v \in 0 .. (MaxVal + 2)} \cup {REG(2), ARG(1)},
        l \in CaseLists, w \in {VAL(0), REG(2)}}

\* the values a phi-source can carry: constants, the argument, %r2 (defined
\* in block 1) and %r10 (defined in block 2, beside a phi-source)
PhiValues == {VAL(0), VAL(1), ARG(1), REG(2), REG(10)}

\* diamond: block 1 branches to blocks 2 and 3, which both jump to the phi
\* node of block 4
DiamondPrograms ==
    {Prog(<<Entry, Bin("OP_ADD", 2, ARG(1), VAL(1)), Cbr(1, ARG(1), tf[1], tf[2]),
            PhiSource(2, 4, v[1]), Br(2, 4), PhiSource(3, 6, v[2]), Br(3, 4),
            PhiNode(4, 8, pl), RetInsn(4, w),
            InBlock(Un("OP_NOT", 10, ARG(1)), 2)>>,
          [b \in 1 .. 4 |->
             CASE b = 1 -> Block(<<>>, tf, <<1, 2, 3>>)
               [] b = 2 -> Block(<<1>>, <<4>>, <<10, 4, 5>>)
               [] b = 3 -> Block(<<1>>, <<4>>, <<6, 7>>)
               [] b = 4 -> Block(par, <<>>, <<8, 9>>)]) :
        tf \in {<<2, 3>>, <<3, 2>>}, v \in PhiValues \X (PhiValues \ {REG(10)}),
        pl \in {<<PHI(4), PHI(6)>>, <<PHI(6), PHI(4)>>},
        par \in {<<2, 3>>, <<3, 2>>}, w \in {REG(8), VAL(0)}}

\* triangle: block 1 branches to block 2 and to the phi node of block 4;
\* block 2 jumps to block 4
TrianglePrograms ==
    {Prog(<<Entry, Bin("OP_ADD", 2, ARG(1), VAL(1)), PhiSource(1, 3, v[2]),
            Cbr(1, ARG(1), tf[1], tf[2]), PhiSource(2, 5, v[1]), Br(2, 4),
            Br(3, 4), PhiNode(4, 8, pl), RetInsn(4, w),
            InBlock(Un("OP_NOT", 10, ARG(1)), 2)>>,
          [b \in 1 .. 4 |->
             CASE b = 1 -> Block(<<>>, tf, <<1, 2, 3, 4>>)
               [] b = 2 -> Block(<<1>>, <<4>>, <<10, 5, 6>>)
               [] b = 3 -> Block(<<>>, <<>>, <<7>>)
               [] b = 4 -> Block(par, <<>>, <<8, 9>>)]) :
        tf \in {<<2, 4>>, <<4, 2>>}, v \in PhiValues \X (PhiValues \ {REG(10)}),
        pl \in {<<PHI(3), PHI(5)>>, <<PHI(5), PHI(3)>>},
        par \in {<<1, 2>>, <<2, 1>>}, w \in {REG(8), VAL(0)}}

\* loop: block 2 is its own successor; its phi node joins the entry value
\* and the value of the previous iteration
LoopPrograms ==
    {Prog(<<Entry, Bin("OP_ADD", 2, ARG(1), VAL(1)), PhiSource(1, 3, v0), Br(1, 2),
            PhiNode(2, 5, pl), InBlock(Bin(op, 6, REG(5), VAL(1)), 2),
            PhiSource(2, 7, v1), Cbr(2, c, tf[1], tf[2]), RetInsn(3, w)>>,
          [b \in 1 .. 3 |->
             CASE b = 1 -> Block(<<>>, <<2>>, <<1, 2, 3, 4>>)
               [] b = 2 -> Block(<<1, 2>>, tf, <<5, 6, 7, 8>>)
               [] b = 3 -> Block(<<2>>, <<>>, <<9>>)]) :
        v0 \in {VAL(0), ARG(1), REG(2)}, v1 \in {REG(6), REG(5), VAL(0)},
        pl \in {<<PHI(3), PHI(7)>>, <<PHI(7), PHI(3)>>},
        op \in {"OP_ADD", "OP_SET_NE"}, c \in {ARG(1), REG(6), VAL(0)},
        tf \in {<<2, 3>>, <<3, 2>>}, w \in {REG(5), REG(6), VAL(0)}}

PhiPrograms == DiamondPrograms \cup TrianglePrograms \cup LoopPrograms

\* every REG and PHI pseudo of the function has its defining instruction
Defined(list) ==
    \A p \in PseudosIn(list) :
        p[1] \in {"REG", "PHI"} =>
            \E i \in DOMAIN list : list[i].target = p /\ list[i].opcode # "OP_STORE"

Programs ==
    {p \in ExprPrograms \cup CastPrograms \cup MemPrograms \cup CallPrograms
            \cup BranchPrograms \cup SelPrograms \cup SwitchPrograms
            \cup PhiPrograms :
        Defined(p.insns)}

NoCall == [op |-> "none", insn |-> 0, force |-> 0]

\* the driver is not running
NoPass == [run |-> 0, pos |-> 0, mask |-> {}]

NoEval == [opcode |-> "OP_BADOP", size |-> 0, src1 |-> {}, src2 |-> {},
           und |-> "modulo", res |-> NoFold]

InitProgram(prog) ==
    /\ insns = prog.insns
    /\ users = BuildUsers(prog.insns)
    /\ def = BuildDef(prog.insns)
    /\ blocks = prog.blocks
    /\ repeat_phase = {}
    /\ ret = {}
    /\ warn = {}
    /\ abort = {}
    /\ clobbered = {}

Init ==
    /\ \E prog \in Programs : InitProgram(prog)
    /\ last = NoCall
    /\ ev = NoEval
    /\ pass = NoPass

\* simplify_instruction(insn) on any instruction of the function
SimplifyInstruction ==
    /\ abort = {}
    /\ \E i \in DOMAIN insns :
         \E r \in Outcomes(LAMBDA s : simplify_instruction(s, i)) : Commit(r)
    /\ UNCHANGED <<last, ev, pass>>

Next == SimplifyInstruction

Spec == Init /\ [][Next]_vars

(***************************************************************************)
(* Use-list bookkeeping.                                                   *)
(***************************************************************************)
Live(i) == insns[i].bb # 0

\* the operand slots of live instructions that hold a pseudo with a use list
BoundSlots ==
    {e \in UsesIn(insns) : Live(e[1])}

EntryCount(e) ==
    LET p == SlotOf(insns[e[1]], <<e[2], e[3]>>)
    IN  IF p \in DOMAIN users THEN CopiesIn(e, users[p]) ELSE 0

SomeDead == \E i \in DOMAIN insns : ~Live(i)

\* C1: after every call of simplify_instruction, each operand slot of a
\* live instruction that holds a pseudo with a use list has exactly one
\* entry (instruction, slot) in that pseudo's use list.
C1_OneEntryPerBoundSlot ==
    \A e \in BoundSlots : EntryCount(e) = 1

\* C1 witness: a call has rewritten the function (an instruction is dead,
\* REPEAT_CSE was returned) and live operand slots are still bound.
C1_Witness ==
    /\ SomeDead
    /\ "REPEAT_CSE" \in ret
    /\ \E e \in BoundSlots : insns[e[1]].opcode # "OP_RET" /\ EntryCount(e) = 1

\* C2 as stated; the function "%r2 <- symaddr sym1; %r3 <- add -1, %r2;
\* ret 0" refutes it: simplify_instruction(%r3) kills both instructions and
\* sym1's use list keeps the entry of the dead symaddr.
\* C2: no use list holds an entry that belongs to a dead instruction.
C2_NoEntryOfDeadInsn ==
    \A p \in DOMAIN users : \A e \in BagToSet(users[p]) : Live(e[1])

\* C3: no operand slot of a live instruction holds a REG pseudo whose
\* defining instruction is dead.
C3_NoLiveUseOfDeadDef ==
    \A e \in BoundSlots :
        LET p == SlotOf(insns[e[1]], <<e[2], e[3]>>)
        IN  p[1] = "REG" => Live(def[p])

\* C3 witness: an instruction was replaced or killed (it is dead and its
\* target has no user left) while a live instruction uses a REG whose
\* definition is live.
C3_Witness ==
    /\ \E d \in DOMAIN insns :
          /\ ~Live(d) /\ insns[d].target[1] = "REG"
          /\ BagToSet(users[insns[d].target]) = {}
    /\ \E e \in BoundSlots :
          LET p == SlotOf(insns[e[1]], <<e[2], e[3]>>)
          IN  p[1] = "REG" /\ Live(def[p]) /\ insns[e[1]].opcode # "OP_RET"

(***************************************************************************)
(* The evaluator on its own: eval_insn on words of every width, and        *)
(* simplify_constant_binop on "%r2 <- op.n $a, $b; ret.n %r2".  The        *)
(* model's VALs are integers, so the instruction is built for the widths   *)
(* up to MaxValBits; wider operands go to eval_insn directly.              *)
(***************************************************************************)
EvalSizes == {1, 2, 7, 8, 16, 31, 32, 33, 63, 64}

MaxValBits == 8

\* n-bit operands: 0, 1, 2, MAX_n, MIN_n, -1, MIN_n + 1, n, 63, 64
Patterns(n) ==
    {p \cap LowBits(n) :
        p \in {BVZero, BVOne, {1}, 0 .. (n - 2), {n - 1}, 0 .. (n - 1),
               {0, n - 1}, BVOfInt(n), BVOfInt(63), BVOfInt(64)}}

\* a negative value is stored zero-extended (255) or sign-extended (-1)
Operands(n) ==
    Patterns(n) \cup {p \cup (AllBits \ LowBits(n)) : p \in {{n - 1}, LowBits(n)}}

EvalInputs ==
    UNION {[opcode : EvalOps, size : {n}, src1 : Operands(n), src2 : Operands(n)] :
              n \in EvalSizes}

EvalProgram(e) ==
    IF e.size <= MaxValBits
    THEN OneBlock(<<Entry,
                    Insn(e.opcode, 1, e.size, REG(2), VAL(IntOfBV(e.src1)),
                         VAL(IntOfBV(e.src2)), NULLP),
                    Insn("OP_RET", 1, e.size, NULLP, REG(2), NULLP, NULLP)>>)
    ELSE OneBlock(<<Entry,
                    Insn("OP_RET", 1, e.size, NULLP, VAL(0), NULLP, NULLP)>>)

InitEval ==
    /\ \E e \in EvalInputs :
          /\ ev = [opcode |-> e.opcode, size |-> e.size, src1 |-> e.src1,
                   src2 |-> e.src2, und |-> "modulo", res |-> NoFold]
          /\ InitProgram(EvalProgram(e))
    /\ last = NoCall
    /\ pass = NoPass

\* eval_insn(insn) on the two operand words
EvalInsn ==
    /\ last = NoCall
    /\ \E u \in (IF EvalHitsUndefined(ev.opcode, ev.size, ev.src2)
                 THEN UndShift ELSE {"modulo"}) :
          ev' = [ev EXCEPT !.und = u,
                           !.res = eval_insn(ev.opcode, ev.size, ev.src1,
                                             ev.src2, u)]
    /\ last' = [op |-> "eval_insn", insn |-> 0, force |-> 0]
    /\ UNCHANGED <<insns, users, def, blocks, repeat_phase, ret, warn, abort,
                   clobbered, pass>>

\* simplify_constant_binop(insn), as simplify_binop calls it: both operands
\* are constant()
SimplifyConstantBinop ==
    /\ last = NoCall
    /\ Len(insns) = 3
    /\ constant(insns[2].src1) /\ constant(insns[2].src2)
    /\ \E r \in Outcomes(LAMBDA s : simplify_constant_binop(s, 2)) : Commit(r)
    /\ last' = [op |-> "simplify_constant_binop", insn |-> 2, force |-> 0]
    /\ UNCHANGED <<ev, pass>>

NextEval == EvalInsn \/ SimplifyConstantBinop

SpecEval == InitEval /\ [][NextEval]_vars

(***************************************************************************)
(* The operations on n-bit two's-complement integers, for reference.       *)
(* WordRef works on n-bit words (sign and magnitude, no extension to the   *)
(* host width); IntRef works on the integers the words stand for and is    *)
(* used for the widths up to MaxValBits.                                   *)
(***************************************************************************)
Low(a, n) == a \cap LowBits(n)

NegBit(a, n) == (n - 1) \in a

NegW(a, n) == AddW(LowBits(n) \ a, BVZero, 1, n)

Mag(a, n) == IF NegBit(a, n) THEN NegW(Low(a, n), n) ELSE Low(a, n)

SignedLess(a, b, n) ==
    IF NegBit(a, n) # NegBit(b, n) THEN NegBit(a, n)
    ELSE ULT(Low(a, n), Low(b, n))

\* the shift count as the operation reads it: unsigned for LSR, signed for
\* SHL and ASR; the shift is defined for the counts 0 .. 63
CountDefined(opcode, b, n) ==
    /\ Low(b, n) \subseteq 0 .. 5
    /\ opcode = "OP_LSR" \/ ~NegBit(b, n)

DivDefined(opcode, a, b, n) ==
    /\ Low(b, n) # BVZero
    /\ opcode \in {"OP_DIVS", "OP_MODS"} =>
          ~(Low(a, n) = {n - 1} /\ Low(b, n) = LowBits(n))

OpDefined(opcode, a, b, n) ==
    CASE opcode \in {"OP_DIVU", "OP_MODU", "OP_DIVS", "OP_MODS"} ->
            DivDefined(opcode, a, b, n)
      [] opcode \in {"OP_SHL", "OP_LSR", "OP_ASR"} -> CountDefined(opcode, b, n)
      [] OTHER -> TRUE

WordRef(opcode, a, b, n) ==
    LET ua == Low(a, n)
        ub == Low(b, n)
        k  == Byte(ub, 0)
    IN  CASE opcode = "OP_ADD" -> AddW(ua, ub, 0, n)
          [] opcode = "OP_SUB" -> AddW(ua, LowBits(n) \ ub, 1, n)
          [] opcode = "OP_MUL" -> Low(BVMul(ua, ub), n)
          [] opcode = "OP_DIVU" -> UDivMod(ua, ub).q
          [] opcode = "OP_MODU" -> UDivMod(ua, ub).r
          [] opcode = "OP_DIVS" ->
                LET q == UDivMod(Mag(a, n), Mag(b, n)).q
                IN  IF NegBit(a, n) # NegBit(b, n) THEN NegW(q, n) ELSE Low(q, n)
          [] opcode = "OP_MODS" ->
                LET r == UDivMod(Mag(a, n), Mag(b, n)).r
                IN  IF NegBit(a, n) THEN NegW(r, n) ELSE Low(r, n)
          [] opcode = "OP_SHL" -> {i + k : i \in ua} \cap LowBits(n)
          [] opcode = "OP_LSR" -> {i - k : i \in ua} \cap LowBits(n)
          [] opcode = "OP_ASR" ->
                ({i - k : i \in ua} \cap LowBits(n))
                  \cup (IF NegBit(a, n) THEN {i \in LowBits(n) : i + k >= n - 1}
                        ELSE {})
          [] opcode = "OP_AND" -> ua \cap ub
          [] opcode = "OP_OR"  -> ua \cup ub
          [] opcode = "OP_XOR" -> (ua \ ub) \cup (ub \ ua)
          [] opcode = "OP_AND_BOOL" -> BoolBV(ua # {} /\ ub # {})
          [] opcode = "OP_OR_BOOL"  -> BoolBV(ua # {} \/ ub # {})
          [] opcode = "OP_SET_EQ" -> BoolBV(ua = ub)
          [] opcode = "OP_SET_NE" -> BoolBV(ua # ub)
          [] opcode = "OP_SET_LE" -> BoolBV(~SignedLess(b, a, n))
          [] opcode = "OP_SET_GE" -> BoolBV(~SignedLess(a, b, n))
          [] opcode = "OP_SET_LT" -> BoolBV(SignedLess(a, b, n))
          [] opcode = "OP_SET_GT" -> BoolBV(SignedLess(b, a, n))
          [] opcode = "OP_SET_B"  -> BoolBV(ULT(ua, ub))
          [] opcode = "OP_SET_A"  -> BoolBV(ULT(ub, ua))
          [] opcode = "OP_SET_BE" -> BoolBV(~ULT(ub, ua))
          [] opcode = "OP_SET_AE" -> BoolBV(~ULT(ua, ub))

\* the unsigned and the signed integer of an n-bit word, n <= MaxValBits
UInt(a, n) == Limb(Low(a, n), 0)

SInt(a, n) == IF NegBit(a, n) THEN UInt(a, n) - Pow2(n) ELSE UInt(a, n)

AbsInt(x) == IF x < 0 THEN 0 - x ELSE x

\* the quotient truncated towards zero
TruncDiv(x, y) ==
    IF (x < 0) # (y < 0) THEN 0 - (AbsInt(x) \div AbsInt(y))
    ELSE AbsInt(x) \div AbsInt(y)

BoolInt(c) == IF c THEN 1 ELSE 0

\* bitwise operations on the non-negative integers below 2^n
BitsInt(x, y, n, f(_, _)) ==
    LET w == {i \in LowBits(n) : f((x \div Pow2(i)) % 2 = 1, (y \div Pow2(i)) % 2 = 1)}
    IN  Limb(w, 0)

IntRef(opcode, a, b, n) ==
    LET ua == UInt(a, n)
        ub == UInt(b, n)
        sa == SInt(a, n)
        sb == SInt(b, n)
        m  == Pow2(n)
    IN  CASE opcode = "OP_ADD" -> (sa + sb) % m
          [] opcode = "OP_SUB" -> (sa - sb) % m
          [] opcode = "OP_MUL" -> (ua * ub) % m
          [] opcode = "OP_DIVU" -> ua \div ub
          [] opcode = "OP_MODU" -> ua % ub
          [] opcode = "OP_DIVS" -> TruncDiv(sa, sb) % m
          [] opcode = "OP_MODS" -> (sa - sb * TruncDiv(sa, sb)) % m
          [] opcode = "OP_SHL" -> IF sb >= n THEN 0 ELSE (ua * Pow2(sb)) % m
          [] opcode = "OP_LSR" -> IF ub >= n THEN 0 ELSE ua \div Pow2(ub)
          [] opcode = "OP_ASR" -> (sa \div Pow2(IF sb >= n THEN n ELSE sb)) % m
          [] opcode = "OP_AND" -> BitsInt(ua, ub, n, LAMBDA x, y : x /\ y)
          [] opcode = "OP_OR"  -> BitsInt(ua, ub, n, LAMBDA x, y : x \/ y)
          [] opcode = "OP_XOR" -> BitsInt(ua, ub, n, LAMBDA x, y : x # y)
          [] opcode = "OP_AND_BOOL" -> BoolInt(ua # 0 /\ ub # 0)
          [] opcode = "OP_OR_BOOL"  -> BoolInt(ua # 0 \/ ub # 0)
          [] opcode = "OP_SET_EQ" -> BoolInt(sa = sb)
          [] opcode = "OP_SET_NE" -> BoolInt(sa # sb)
          [] opcode = "OP_SET_LE" -> BoolInt(sa <= sb)
          [] opcode = "OP_SET_GE" -> BoolInt(sa >= sb)
          [] opcode = "OP_SET_LT" -> BoolInt(sa < sb)
          [] opcode = "OP_SET_GT" -> BoolInt(sa > sb)
          [] opcode = "OP_SET_B"  -> BoolInt(ua < ub)
          [] opcode = "OP_SET_A"  -> BoolInt(ua > ub)
          [] opcode = "OP_SET_BE" -> BoolInt(ua <= ub)
          [] opcode = "OP_SET_AE" -> BoolInt(ua >= ub)

EvalDone == last.op = "eval_insn"

BinopDone == last.op = "simplify_constant_binop"

EvDefined == OpDefined(ev.opcode, ev.src1, ev.src2, ev.size)

\* C4: for every opcode eval_insn handles, every width n and every pair of
\* n-bit operands for which the operation is defined, eval_insn folds to
\* the result of the operation on n-bit two's-complement integers, masked
\* to n bits (0 or 1 for the compares), and simplify_constant_binop puts
\* that VAL in place of the instruction's target.
C4_FoldIsNBitResult ==
    /\ EvalDone /\ EvDefined =>
          /\ ev.res = Folded(WordRef(ev.opcode, ev.src1, ev.src2, ev.size))
          /\ ev.size <= MaxValBits =>
                ev.res = Folded(BVOfInt(IntRef(ev.opcode, ev.src1, ev.src2, ev.size)))
    /\ BinopDone /\ EvDefined =>
          /\ insns[2].bb = 0
          /\ insns[3].src1 = VAL(IntRef(ev.opcode, ev.src1, ev.src2, ev.size))

\* C4 witness: a signed division of a negative 33-bit dividend was folded,
\* and a constant 8-bit arithmetic shift of a negative value was replaced.
C4_Witness ==
    \/ /\ EvalDone /\ EvDefined /\ ev.res.fold
       /\ ev.opcode = "OP_DIVS" /\ ev.size = 33
       /\ NegBit(ev.src1, 33) /\ ~NegBit(ev.src2, 33)
    \/ /\ BinopDone /\ EvDefined /\ insns[2].bb = 0
       /\ ev.opcode = "OP_ASR" /\ NegBit(ev.src1, ev.size)

\* the cases C5 is about: a zero divisor, and the signed overflow MIN_n / -1
ZeroDivisor ==
    /\ ev.opcode \in {"OP_DIVU", "OP_MODU", "OP_DIVS", "OP_MODS"}
    /\ Low(ev.src2, ev.size) = BVZero

MinByMinusOne ==
    /\ ev.opcode \in {"OP_DIVS", "OP_MODS"}
    /\ Low(ev.src1, ev.size) = {ev.size - 1}
    /\ Low(ev.src2, ev.size) = LowBits(ev.size)

IRAsBuilt ==
    LET prog == EvalProgram(ev)
    IN  /\ insns = prog.insns
        /\ users = BuildUsers(prog.insns)
        /\ def = BuildDef(prog.insns)
        /\ blocks = prog.blocks

\* C5 as stated; "%r2 <- divs.8 $128, $255" (MIN_8 / -1) refutes it:
\* eval_insn folds it to $128 and simplify_constant_binop replaces %r2.
\* C5: for every width n, a DIVU/MODU/DIVS/MODS by zero and a DIVS/MODS of
\* (MIN_n, -1) is never folded: eval_insn yields no result,
\* simplify_constant_binop returns 0 and the instruction, its operands and
\* all use lists are unchanged.
C5_UndefinedNeverFolded ==
    ZeroDivisor \/ MinByMinusOne =>
        /\ EvalDone => ev.res = NoFold
        /\ BinopDone => ret = {} /\ IRAsBuilt

(***************************************************************************)
(* The calls with a trace: every step records in "last" which function ran *)
(* on which instruction.  kill_insn() is called as its callers do: without *)
(* force on an instruction that defines nothing in use (dead_insn,         *)
(* rem_usage, kill_instruction), with force on a store (dead store         *)
(* elimination) and on the instructions of an unreachable block.           *)
(***************************************************************************)
Terminators == {"OP_RET", "OP_BR", "OP_CBR", "OP_SWITCH", "OP_COMPUTEDGOTO"}

TargetInUse(i) ==
    LET t == insns[i].target
    IN  /\ t \in DOMAIN def
        /\ def[t] = i
        /\ t \in DOMAIN users
        /\ BagToSet(users[t]) # {}

Unreachable(b) == b # 0 /\ b # 1 /\ blocks[b].parents = <<>>

CanKill(i, force) ==
    IF force = 0
    THEN insns[i].opcode \notin Terminators /\ ~TargetInUse(i)
    ELSE \/ insns[i].opcode = "OP_STORE" /\ insns[i].bb # 0
         \/ Unreachable(insns[i].bb)

\* the functions with memory accesses, calls, branches, switches and phi nodes
TracedPrograms ==
    {p \in MemPrograms \cup CallPrograms \cup BranchPrograms \cup SwitchPrograms
            \cup PhiPrograms :
        Defined(p.insns)}

InitTraced ==
    /\ \E prog \in TracedPrograms : InitProgram(prog)
    /\ last = NoCall
    /\ ev = NoEval
    /\ pass = NoPass

TracedSimplify ==
    /\ abort = {}
    /\ \E i \in DOMAIN insns :
          /\ \E r \in Outcomes(LAMBDA s : simplify_instruction(s, i)) : Commit(r)
          /\ last' = [op |-> "simplify_instruction", insn |-> i, force |-> 0]
    /\ UNCHANGED <<ev, pass>>

KillInsn ==
    /\ abort = {}
    /\ \E i \in DOMAIN insns : \E force \in {0, 1} :
          /\ CanKill(i, force)
          /\ \E r \in Outcomes(LAMBDA s : kill_insn(s, i, force)) : Commit(r)
          /\ last' = [op |-> "kill_insn", insn |-> i, force |-> force]
    /\ UNCHANGED <<ev, pass>>

NextTraced == TracedSimplify \/ KillInsn

SpecTraced == InitTraced /\ [][NextTraced]_vars

\* the call the step has made
Called(op) == last'.op = op

IRUnchanged == UNCHANGED <<insns, users, def, blocks>>

\* the instructions kill_insn() refuses without force
RefusedKill(i) ==
    /\ insns[i].bb # 0
    /\ \/ insns[i].opcode = "OP_LOAD" /\ insns[i].type.volatile
       \/ insns[i].opcode = "OP_STORE"
       \/ /\ insns[i].opcode = "OP_CALL"
          /\ ~(insns[i].src1[1] = "SYM" /\ IsPureSym(insns[i].src1))
       \/ insns[i].opcode = "OP_ENTRY"

UnusedVolatileLoad(i) ==
    /\ insns[i].bb # 0
    /\ insns[i].opcode = "OP_LOAD" /\ insns[i].type.volatile
    /\ BagToSet(users[insns[i].target]) = {}

\* C6: kill_insn with force = 0 on a volatile load, a store, a call whose
\* callee is not a pure SYM, or the entry returns 0 and leaves the IR as it
\* was (the instruction live, every operand slot and use list unchanged);
\* simplify_instruction on a volatile load whose target has no users
\* returns 0 and does not kill it.
C6_RefusedKillKeepsIR ==
    [][/\ Called("kill_insn") /\ last'.force = 0 /\ RefusedKill(last'.insn) =>
            ret' = {} /\ IRUnchanged /\ UNCHANGED repeat_phase
       /\ Called("simplify_instruction") /\ UnusedVolatileLoad(last'.insn) =>
            ret' = {} /\ IRUnchanged /\ UNCHANGED repeat_phase]_vars

\* C6 witness: kill_insn without force has run on a volatile load whose
\* target is unused, and the load is still live with its address bound.
C6_Witness ==
    /\ last.op = "kill_insn" /\ last.force = 0
    /\ UnusedVolatileLoad(last.insn)
    /\ ret = {}
    /\ EntryCount(<<last.insn, "src1", 0>>) = 1

\* the entries of a switch that hold v, and its default entries
RangeCases(list, v) ==
    {k \in DOMAIN list : list[k].begin <= list[k].end
                           /\ v >= list[k].begin /\ v <= list[k].end}

DefaultCases(list) == {k \in DOMAIN list : list[k].begin > list[k].end}

TargetsOf(list, ks) == {list[k].target : k \in ks}

\* the step is simplify_switch() on a live switch with a VAL scrutinee
SwitchCall(i) ==
    /\ Called("simplify_instruction")
    /\ insns[i].bb # 0
    /\ insns[i].opcode = "OP_SWITCH"
    /\ constant(insns[i].src1)

\* the switch has become "br target" for one of the targets
BranchTo(i, targets) ==
    LET lst == blocks'[insns[i].bb].insns
        br  == lst[Len(lst)]
    IN  /\ insns'[i].bb = 0
        /\ insns'[br].opcode = "OP_BR"
        /\ insns'[br].bb_true \in targets
        /\ "REPEAT_CSE" \in ret'

SwitchIntact == ret' = {} /\ IRUnchanged

\* C7 as stated; the switch "switch $0: default -> .L4, 0 -> .L2" refutes
\* it: the loop stops at the default entry, which comes first.
\* C7: a switch on a VAL v becomes a branch to the target of a case whose
\* range holds v whenever there is one, and to the default only when no
\* range holds v, for every order of multijmp_list; with neither it returns
\* 0 and leaves the instruction intact.
C7_MatchingCaseAnyOrder ==
    [][\A i \in DOMAIN insns : SwitchCall(i) /\ last'.insn = i =>
          LET list == insns[i].multijmp_list
              m    == RangeCases(list, insns[i].src1[2])
              d    == DefaultCases(list)
          IN  /\ m # {} => BranchTo(i, TargetsOf(list, m))
              /\ m = {} /\ d # {} => BranchTo(i, TargetsOf(list, d))
              /\ m = {} /\ d = {} => SwitchIntact]_vars

\* C7 amended: the branch goes to the target of the first entry, in list
\* order, that is the default or whose range holds v; with no such entry
\* the call returns 0 and leaves the instruction intact.
C7_FirstHitInListOrder ==
    [][\A i \in DOMAIN insns : SwitchCall(i) /\ last'.insn = i =>
          LET list == insns[i].multijmp_list
              hits == RangeCases(list, insns[i].src1[2]) \cup DefaultCases(list)
          IN  IF hits = {} THEN SwitchIntact
              ELSE BranchTo(i, {list[CHOOSE k \in hits :
                                        \A h \in hits : k <= h].target})]_vars

\* C7 witness: a switch whose list has a range case holding the scrutinee
\* after its first hit has become a branch.
C7_Witness ==
    /\ last.op = "simplify_instruction"
    /\ insns[last.insn].opcode = "OP_SWITCH"
    /\ insns[last.insn].bb = 0
    /\ constant(insns[last.insn].src1)
    /\ "REPEAT_CSE" \in ret
    /\ \E k \in RangeCases(insns[last.insn].multijmp_list, insns[last.insn].src1[2]) :
          k > 1
    /\ \E j \in DOMAIN insns : insns[j].opcode = "OP_BR" /\ insns[j].bb = 1

\* the step is if_convert_phi() inserting a select for the phi node i
IfConverted(i) ==
    /\ Called("simplify_instruction")
    /\ last'.insn = i
    /\ insns[i].bb # 0
    /\ insns[i].opcode = "OP_PHI"
    /\ Len(insns') = Len(insns) + 1
    /\ insns'[Len(insns')].opcode = "OP_SEL"

\* a phi-source of the phi node i that sits in block b and carries value v
SourceFrom(i, b, v) ==
    \E k \in DOMAIN insns[i].phi_list :
        LET p == insns[i].phi_list[k]
        IN  /\ p # VOID
            /\ insns[def[p]].bb = b
            /\ insns[def[p]].src1 = v

\* C8: when if_convert_phi fires, the select stands before the conditional
\* branch of the common source block; its true arm is the phi-source value
\* of the predecessor reached when the condition is non-zero and its false
\* arm the value of the predecessor reached when it is zero (the source
\* block itself where the branch goes straight to the phi node's block).
C8_SelectArmsFollowBranch ==
    [][\A i \in DOMAIN insns : IfConverted(i) =>
          LET sel    == insns'[Len(insns')]
              source == sel.bb
              lst    == blocks[source].insns
              br     == insns[lst[Len(lst)]]
              PredOn(t) == IF t = insns[i].bb THEN source ELSE t
              after  == blocks'[source].insns
          IN  /\ br.opcode = "OP_CBR"
              /\ sel.src1 = br.src1
              /\ SourceFrom(i, PredOn(br.bb_true), sel.src2)
              /\ SourceFrom(i, PredOn(br.bb_false), sel.src3)
              /\ after[Len(after)] = lst[Len(lst)]
              /\ after[Len(after) - 1] = Len(insns')
              /\ sel.target = insns[i].target
              /\ insns'[i].bb = 0]_vars

\* C8 witness: a phi node was converted and its target is now defined by a
\* select whose arms differ.
C8_Witness ==
    /\ last.op = "simplify_instruction"
    /\ insns[last.insn].opcode = "OP_PHI"
    /\ insns[last.insn].bb = 0
    /\ \E j \in DOMAIN insns :
          /\ insns[j].opcode = "OP_SEL"
          /\ insns[j].target = insns[last.insn].target
          /\ def[insns[j].target] = j
          /\ insns[j].src2 # insns[j].src3
          /\ j > last.insn

(***************************************************************************)
(* The driver: full passes of simplify_instruction over the instructions   *)
(* of the function, in list order, until a pass yields a zero phase mask;  *)
(* repeat_phase is zeroed before each pass.  Run 1 is the first run of     *)
(* the simplifier, run 2 a second run started on the IR the first one      *)
(* left, run 3 the end.  The passes are not counted: a function on which   *)
(* the passes do not converge is a cycle of the state graph.               *)
(***************************************************************************)
\* sums and products of two steps over the leaves
PassPrograms ==
    {OneBlock(<<Entry, Bin(op[1], 2, x, y), Bin(op[2], 3, REG(2), z), RetInsn(1, w)>>) :
        op \in {<<"OP_ADD", "OP_ADD">>, <<"OP_ADD", "OP_SUB">>, <<"OP_MUL", "OP_MUL">>},
        x \in Leaves, y \in Leaves, z \in Leaves, w \in {REG(3), VAL(0)}}

InitPass ==
    /\ \E prog \in PassPrograms : InitProgram(prog)
    /\ last = NoCall
    /\ ev = NoEval
    /\ pass = [run |-> 1, pos |-> 1, mask |-> {}]

Running == pass.run \in {1, 2} /\ abort = {}

\* repeat_phase |= simplify_instruction(insn), for the next instruction
PassVisit ==
    /\ Running
    /\ pass.pos <= Len(insns)
    /\ \E r \in Outcomes(LAMBDA s : simplify_instruction(s, pass.pos)) :
          /\ Commit(r)
          /\ pass' = [pass EXCEPT !.pos = @ + 1,
                                  !.mask = IF r.abort # {} THEN @ ELSE @ \cup r.ret]
    /\ last' = [op |-> "simplify_instruction", insn |-> pass.pos, force |-> 0]
    /\ UNCHANGED ev

\* the end of a pass: with a zero mask the run is over, otherwise
\* repeat_phase is zeroed and the next pass starts
PassEnd ==
    /\ Running
    /\ pass.pos > Len(insns)
    /\ IF pass.mask \cup repeat_phase = {}
       THEN pass' = [run |-> pass.run + 1, pos |-> 1, mask |-> {}]
       ELSE pass' = [pass EXCEPT !.pos = 1, !.mask = {}]
    /\ repeat_phase' = {}
    /\ last' = [op |-> "end_of_pass", insn |-> 0, force |-> 0]
    /\ UNCHANGED <<insns, users, def, blocks, ret, warn, abort, clobbered, ev>>

NextPass == PassVisit \/ PassEnd

RepeatFlags == REPEAT_CSE \cup REPEAT_SYMBOL_CLEANUP \cup REPEAT_CFG_CLEANUP

\* a step of the running driver, seen on its position alone: the next
\* instruction or the start of a pass (every step of NextPass is one)
DriverStep ==
    /\ Running
    /\ pass' \in {[run |-> r, pos |-> q, mask |-> m] :
                    r \in {pass.run, pass.run + 1}, q \in {1, pass.pos + 1},
                    m \in SUBSET RepeatFlags} \ {pass}

\* the driver is a sequential loop: while it runs it takes its next step
SpecPass == InitPass /\ [][NextPass]_vars /\ WF_pass(DriverStep)

FirstRunOver == pass.run >= 2

\* C9 as stated; the function "%r2 <- add sym1, $1; %r3 <- add %r2, sym1;
\* ret %r3" refutes it: simplify_associative_binop exchanges sym1 with sym1
\* and returns REPEAT_CSE in every pass.  A run that ends in a fault of the
\* kill path (C2) is not counted against the claim.
\* C9: full passes of simplify_instruction until a pass yields a zero phase
\* mask reach such a fixpoint after finitely many passes, and a second run
\* on the resulting IR changes nothing: every call returns 0 and leaves the
\* IR and repeat_phase as they were.
C9_ReachesFixpoint ==
    /\ <>(FirstRunOver \/ abort # {})
    /\ [][pass.run = 2 /\ pass'.run = 2 =>
            IRUnchanged /\ ret' = {} /\ UNCHANGED repeat_phase]_vars

(***************************************************************************)
(* The canonicalizers on their own, as simplify_instruction calls them:    *)
(* canonicalize_compare on the ordered compares, canonicalize_commutative  *)
(* on the commutative operations, SET_EQ and SET_NE.  The instruction is   *)
(* "%r4 <- op x, y" for every pair of operands among VOID, constants,      *)
(* symbols, registers, the argument and a phi-source pseudo.               *)
(***************************************************************************)
CompareOps == {"OP_SET_LE", "OP_SET_GE", "OP_SET_LT", "OP_SET_GT",
               "OP_SET_B", "OP_SET_A", "OP_SET_BE", "OP_SET_AE"}

CommutativeOps == {"OP_ADD", "OP_MUL", "OP_AND", "OP_OR", "OP_XOR",
                   "OP_AND_BOOL", "OP_OR_BOOL", "OP_SET_EQ", "OP_SET_NE"}

CanonOperands ==
    {VOID, VAL(0), VAL(MaxVal), SYM(1), SYM(2), REG(2), REG(3), ARG(1), PHI(5)}

CanonPrograms ==
    {OneBlock(<<Entry, Un("OP_NOT", 2, ARG(1)), Un("OP_NEG", 3, ARG(1)),
                Bin(op, 4, x, y), PhiSource(1, 5, ARG(1)),
                RetInsn(1, REG(4))>>) :
        op \in CompareOps \cup CommutativeOps,
        x \in CanonOperands, y \in CanonOperands}

InitCanon ==
    /\ \E prog \in CanonPrograms : InitProgram(prog)
    /\ last = NoCall
    /\ ev = NoEval
    /\ pass = NoPass

CanonicalizeCompare ==
    /\ \E i \in DOMAIN insns :
          /\ insns[i].bb # 0
          /\ insns[i].opcode \in CompareOps
          /\ \E r \in Outcomes(LAMBDA s : canonicalize_compare(s, i)) : Commit(r)
          /\ last' = [op |-> "canonicalize_compare", insn |-> i, force |-> 0]
    /\ UNCHANGED <<ev, pass>>

CanonicalizeCommutative ==
    /\ \E i \in DOMAIN insns :
          /\ insns[i].bb # 0
          /\ insns[i].opcode \in CommutativeOps
          /\ \E r \in Outcomes(LAMBDA s : canonicalize_commutative(s, i)) : Commit(r)
          /\ last' = [op |-> "canonicalize_commutative", insn |-> i, force |-> 0]
    /\ UNCHANGED <<ev, pass>>

NextCanon == CanonicalizeCompare \/ CanonicalizeCommutative

SpecCanon == InitCanon /\ [][NextCanon]_vars

\* the counterpart of a compare when its operands change places
SwappedCompare(op) ==
    CASE op = "OP_SET_LT" -> "OP_SET_GT" [] op = "OP_SET_GT" -> "OP_SET_LT"
      [] op = "OP_SET_LE" -> "OP_SET_GE" [] op = "OP_SET_GE" -> "OP_SET_LE"
      [] op = "OP_SET_B"  -> "OP_SET_A"  [] op = "OP_SET_A"  -> "OP_SET_B"
      [] op = "OP_SET_BE" -> "OP_SET_AE" [] op = "OP_SET_AE" -> "OP_SET_BE"

\* the values an operand can take at run time: 0, 1, MAX, MIN, -1
RunValues(n) == {BVZero, BVOne, 0 .. (n - 2), {n - 1}, 0 .. (n - 1)}

\* the result of the instruction when its non-constant operands take the
\* values rho gives them
ResultOf(insn, rho) ==
    LET val(p) == IF p[1] = "VAL" THEN BVOfInt(p[2]) ELSE rho[p]
    IN  eval_insn(insn.opcode, insn.size, val(insn.src1), val(insn.src2), "modulo")

SameResult(before, after) ==
    LET ps == {before.src1, before.src2}
    IN  \A rho \in [ps -> RunValues(before.size)] :
            ResultOf(before, rho) = ResultOf(after, rho)

CanonicalOperands(insn) ==
    /\ insn.src1[1] = "VAL" => insn.src2[1] = "VAL"
    /\ insn.src1[1] = "SYM" => insn.src2[1] \in {"SYM", "VAL"}

OperandsSwapped(before, after) ==
    after.src1 = before.src2 /\ after.src2 = before.src1

\* C10: after canonicalize_compare the operands are in canonical order
\* (src1 is VAL only if src2 is VAL, src1 is SYM only if src2 is SYM or
\* VAL); when the operands changed places the opcode is the swapped
\* counterpart, so that the compare yields the same value for all operand
\* values; canonicalize_commutative swaps without changing the opcode.
C10_CanonicalOrderKeepsTruth ==
    [][\A i \in DOMAIN insns :
          /\ Called("canonicalize_compare") /\ last'.insn = i =>
                /\ CanonicalOperands(insns'[i])
                /\ IF CanonicalOperands(insns[i]) THEN insns'[i] = insns[i]
                   ELSE /\ OperandsSwapped(insns[i], insns'[i])
                        /\ insns'[i].opcode = SwappedCompare(insns[i].opcode)
                /\ SameResult(insns[i], insns'[i])
          /\ Called("canonicalize_commutative") /\ last'.insn = i =>
                /\ CanonicalOperands(insns'[i])
                /\ insns'[i].opcode = insns[i].opcode
                /\ IF CanonicalOperands(insns[i]) THEN insns'[i] = insns[i]
                   ELSE OperandsSwapped(insns[i], insns'[i])
                /\ SameResult(insns[i], insns'[i])]_vars

\* C10 witness: canonicalize_compare has turned "set* $v, %r" into its
\* counterpart on "%r, $v" and asked for another pass.
C10_Witness ==
    /\ last.op = "canonicalize_compare"
    /\ "REPEAT_CSE" \in ret
    /\ insns[last.insn].opcode \in CompareOps
    /\ insns[last.insn].src1[1] = "REG"
    /\ insns[last.insn].src2[1] = "VAL"
    /\ EntryCount(<<last.insn, "src1", 0>>) = 1

\* the step is a canonicalize call on instruction i
Canonicalizing(i) ==
    /\ last'.insn = i
    /\ Called("canonicalize_compare") \/ Called("canonicalize_commutative")

\* the last call was a canonicalize call on instruction i
Canonicalized(i) ==
    /\ last.insn = i
    /\ last.op \in {"canonicalize_compare", "canonicalize_commutative"}

\* C11: canonicalization is idempotent: on an instruction that
\* canonicalize_commutative or canonicalize_compare has been applied to,
\* whatever the types of its operands (VOID, REG, SYM, VAL, ARG, PHI), a
\* second application returns 0 and changes neither the operands, the
\* opcode, the use lists nor repeat_phase.
C11_CanonicalizeIdempotent ==
    [][\A i \in DOMAIN insns :
          Canonicalized(i) /\ Canonicalizing(i) =>
              /\ ret' = {}
              /\ IRUnchanged
              /\ UNCHANGED repeat_phase]_vars

\* C11 witness: a second application, after the first one swapped the
\* operands, has returned 0.
C11_Witness ==
    /\ last.op \in {"canonicalize_compare", "canonicalize_commutative"}
    /\ ret = {}
    /\ repeat_phase = REPEAT_CSE
    /\ insns[last.insn].src2[1] \in {"VAL", "SYM"}
    /\ insns[last.insn].src1[1] \in {"VOID", "REG", "ARG", "PHI"}


\* ---- killing a phi node ----

\* the phi-source pseudos bound in the phi-list of instruction i
PhiEntries(i) ==
    {insns[i].phi_list[k] : k \in DOMAIN insns[i].phi_list} \ {VOID}

\* this step is kill_insn() on the live phi node i, and it went through
KillingPhi(i) ==
    /\ Called("kill_insn") /\ last'.insn = i
    /\ Live(i) /\ insns[i].opcode = "OP_PHI"
    /\ abort' = {} /\ ret' # {}

\* after the step every slot of the phi-list of i holds VOID and no use list
\* of a pseudo it held names i
PhiUnbound(i) ==
    /\ \A k \in DOMAIN insns'[i].phi_list : insns'[i].phi_list[k] = VOID
    /\ \A p \in PhiEntries(i) :
          p \in DOMAIN users' => \A e \in BagToSet(users'[p]) : e[1] # i

\* every use of pseudo p is a slot of instruction i
OnlyUser(p, i) ==
    p \in DOMAIN users /\ \A e \in BagToSet(users[p]) : e[1] = i

\* C12 as stated: kill_insn on a phi node unbinds every entry of its
\* phi-list, and the live phi-source instructions that define those entries
\* all stay live, also where the phi node was their only user.
C12_PhiKillDoesNotCascade ==
    [][\A i \in DOMAIN insns :
          KillingPhi(i) =>
             /\ PhiUnbound(i)
             /\ \A p \in PhiEntries(i) :
                   p \in DOMAIN def /\ Live(def[p]) => insns'[def[p]].bb # 0]_vars

\* C12: kill_insn on a phi node unbinds every entry of its phi-list with
\* the cascade of kill_use: each slot of the list holds VOID afterwards, the
\* phi node is in no use list of the pseudos it held, and the live
\* phi-source instruction that defines such a pseudo is killed by the same
\* call when the phi node was the only user of the pseudo.
C12_PhiKillCascades ==
    [][\A i \in DOMAIN insns :
          KillingPhi(i) =>
             /\ PhiUnbound(i)
             /\ \A p \in PhiEntries(i) :
                   p \in DOMAIN def /\ Live(def[p]) /\ OnlyUser(p, i) =>
                      insns'[def[p]].bb = 0]_vars

\* C12 witness: kill_insn has just killed a phi node, its phi-list holds
\* VOID only, and a phi-source of the function is dead.
C12_Witness ==
    /\ last.op = "kill_insn" /\ ret # {} /\ abort = {}
    /\ insns[last.insn].opcode = "OP_PHI" /\ ~Live(last.insn)
    /\ \A k \in DOMAIN insns[last.insn].phi_list :
          insns[last.insn].phi_list[k] = VOID
    /\ \E d \in DOMAIN insns : insns[d].opcode = "OP_PHISOURCE" /\ ~Live(d)

(***************************************************************************)
(* simplify_constant_rightside on its own: "%r2 <- op.n %arg1, $c;         *)
(* ret.n %r2" for the widths and the constants of its rules.               *)
(***************************************************************************)
RightOps == {"OP_ADD", "OP_SUB", "OP_OR", "OP_XOR", "OP_SHL", "OP_LSR", "OP_ASR",
             "OP_OR_BOOL", "OP_AND", "OP_AND_BOOL", "OP_MUL", "OP_DIVU",
             "OP_DIVS", "OP_MODU", "OP_MODS"}

RightSizes == {1, 2, 8, 32, 64}

\* 0, 1, 2, 3, and -1 stored sign-extended or zero-extended to n bits
RightConstants(n) ==
    {0, 1, 2, 3, 0 - 1} \cup (IF n <= MaxValBits THEN {IntOfBV(LowBits(n))} ELSE {})

RightPrograms ==
    {OneBlock(<<Entry, Insn(op, 1, n, REG(2), ARG(1), VAL(c), NULLP),
                Insn("OP_RET", 1, n, NULLP, REG(2), NULLP, NULLP)>>) :
        op \in RightOps, n \in RightSizes, c \in UNION {RightConstants(m) : m \in RightSizes}}

InitRight ==
    /\ \E prog \in RightPrograms : InitProgram(prog)
    /\ last = NoCall
    /\ ev = NoEval
    /\ pass = NoPass

\* simplify_constant_rightside(insn), as simplify_binop calls it: src2 is
\* constant() and src1 is not
SimplifyConstantRightside ==
    /\ abort = {}
    /\ Live(2)
    /\ insns[2].opcode \in BinaryOps
    /\ constant(insns[2].src2) /\ ~constant(insns[2].src1)
    /\ \E r \in Outcomes(LAMBDA s : simplify_constant_rightside(s, 2)) : Commit(r)
    /\ last' = [op |-> "simplify_constant_rightside", insn |-> 2, force |-> 0]
    /\ UNCHANGED <<ev, pass>>

NextRight == SimplifyConstantRightside

SpecRight == InitRight /\ [][NextRight]_vars

\* the constant is -1 in the n bits of the instruction
MinusOne(insn) == LowBits(insn.size) \subseteq BVOfInt(insn.src2[2])

\* the operator and the constant are those of a rule
RuleApplies(insn) ==
    LET op == insn.opcode
        c  == insn.src2[2]
    IN  \/ op \in {"OP_ADD", "OP_SUB", "OP_OR", "OP_XOR", "OP_SHL", "OP_LSR",
                   "OP_OR_BOOL", "OP_ASR"} /\ c = 0
        \/ op = "OP_SUB" /\ c # 0
        \/ op = "OP_OR_BOOL" /\ c = 1
        \/ op \in {"OP_AND", "OP_AND_BOOL"} /\ c = 0
        \/ op = "OP_AND_BOOL" /\ c = 1
        \/ op \in {"OP_MUL", "OP_DIVS", "OP_DIVU", "OP_MODU", "OP_MODS"} /\ c = 1
        \/ op = "OP_MUL" /\ c = 0
        \/ op \in {"OP_MUL", "OP_DIVS"} /\ MinusOne(insn)

\* the rule takes src1 for a truth value
BoolRule(insn) ==
    \/ insn.opcode = "OP_OR_BOOL" /\ insn.src2[2] = 0
    \/ insn.opcode = "OP_AND_BOOL" /\ insn.src2[2] = 1

\* the n-bit value of "op.n %arg1, $c" when %arg1 holds x
ValueBefore(x) ==
    eval_insn(insns[2].opcode, insns[2].size, x, BVOfInt(insns[2].src2[2]), "modulo")

\* the n-bit value that reaches the ret after the step when %arg1 holds x:
\* of the instruction when it is still there, else of the pseudo that took
\* the place of its target
ValueAfter(x) ==
    LET n    == insns[2].size
        bits == LowBits(n)
        q    == insns'[3].src1
    IN  IF insns'[2].bb # 0
        THEN IF insns'[2].opcode = "OP_NEG"
             THEN Folded(BVAnd(BVNeg(SignExtend(x, n)), bits))
             ELSE eval_insn(insns'[2].opcode, n, x, BVOfInt(insns'[2].src2[2]),
                            "modulo")
        ELSE IF q[1] = "VAL" THEN Folded(BVAnd(BVOfInt(q[2]), bits))
        ELSE Folded(BVAnd(x, bits))

\* wherever the instruction has a value before the step, it has the same
\* value after it
SameValue ==
    \A x \in RunValues(insns[2].size) :
        ValueBefore(x).fold => ValueAfter(x) = ValueBefore(x)

\* C13: every rule of simplify_constant_rightside (with simplify_mul_div and
\* simplify_asr) rewrites "op.n src1, $c" into a form with the same n-bit
\* value, for every width n, every n-bit value of src1 and every constant c
\* of the rule.
C13_RightsideRewritesKeepValue ==
    [][Called("simplify_constant_rightside") /\ RuleApplies(insns[2]) =>
          ret' # {} /\ SameValue]_vars

\* the rules that do not take src1 for a truth value keep the value
C13_ArithmeticRulesKeepValue ==
    [][Called("simplify_constant_rightside") /\ RuleApplies(insns[2])
          /\ ~BoolRule(insns[2]) =>
          ret' # {} /\ SameValue]_vars

(***************************************************************************)
(* simplify_cast of a constant on its own: "%r2 <- cast.n (m) $v;          *)
(* ret.n %r2" for the widths n and m around those of int and long long.    *)
(***************************************************************************)
CastSizes == {1, 8, 16, 31, 32, 33, 63, 64}

CastValues == {0, 1, 0 - 1, 127, 128, 255, 0 - 128}

CastOfVal(op, n, m, sign, v) ==
    [Insn(op, 1, n, REG(2), VAL(v), NULLP, NULLP)
        EXCEPT !.orig_type = Type("int", m, sign, FALSE),
               !.type = Type("int", n, FALSE, FALSE)]

ConstCastPrograms ==
    {OneBlock(<<Entry, CastOfVal(op, n, m, sign, v),
                Insn("OP_RET", 1, n, NULLP, REG(2), NULLP, NULLP)>>) :
        op \in {"OP_CAST", "OP_SCAST"}, n \in CastSizes, m \in CastSizes,
        sign \in BOOLEAN, v \in CastValues}

InitCast ==
    /\ \E prog \in ConstCastPrograms : InitProgram(prog)
    /\ last = NoCall
    /\ ev = NoEval
    /\ pass = NoPass

\* simplify_cast(insn), as simplify_instruction calls it
SimplifyCast ==
    /\ abort = {}
    /\ Live(2)
    /\ \E r \in Outcomes(LAMBDA s : simplify_cast(s, 2)) : Commit(r)
    /\ last' = [op |-> "simplify_cast", insn |-> 2, force |-> 0]
    /\ UNCHANGED <<ev, pass>>

NextCast == SimplifyCast

SpecCast == InitCast /\ [][NextCast]_vars

\* the source taken as a value of the original type when the cast widens a
\* signed type, then cut to the bits of the new size
CastReference(insn) ==
    LET val == BVOfInt(insn.src1[2])
        m   == insn.orig_type.bit_size
        n   == insn.size
    IN  BVAnd(IF insn.orig_type.signed /\ n > m THEN SignExtend(val, m) ELSE val,
              LowBits(n))

\* the cast of insn 2 has been replaced by the constant of word w
FoldedTo(w) ==
    /\ insns'[2].bb = 0
    /\ insns'[3].src1[1] = "VAL"
    /\ BVOfInt(insns'[3].src1[2]) = w

\* C14: simplify_cast of a VAL source folds the cast, for all sizes of the
\* original and the new type in 1..64, to the source sign-extended from the
\* top bit of the original size (signed original type, widening cast) and
\* cut to the new size: a value in [0, 2^size).
C14_CastFoldsToTruncation ==
    [][Called("simplify_cast") /\ abort' = {} =>
          ret' # {} /\ FoldedTo(CastReference(insns[2]))]_vars

\* the same for the sizes below that of int, where the masks are in range
C14_NarrowCastFoldsToTruncation ==
    [][Called("simplify_cast") /\ abort' = {} /\ insns[2].size < IntBits
          /\ insns[2].orig_type.bit_size < IntBits =>
          ret' # {} /\ FoldedTo(CastReference(insns[2]))]_vars

(***************************************************************************)
(* simplify_select on its own: "%r2 <- setlt.n %arg1, $1;                  *)
(* %r3 <- select.n c, t, f; ret.n w".                                      *)
(***************************************************************************)
SelectOperands == {REG(2), ARG(1), VAL(0), VAL(1), VAL(2), VAL(0 - 1)}

SelectPrograms ==
    {OneBlock(<<Entry, Bin("OP_SET_LT", 2, ARG(1), VAL(1)), Sel(3, c, x, y),
                RetInsn(1, w)>>) :
        c \in SelectOperands, x \in SelectOperands, y \in SelectOperands,
        w \in {REG(3), VAL(0)}}

InitSelect ==
    /\ \E prog \in SelectPrograms : InitProgram(prog)
    /\ last = NoCall
    /\ ev = NoEval
    /\ pass = NoPass

\* simplify_select(insn), as simplify_instruction calls it
SimplifySelect ==
    /\ abort = {}
    /\ Live(3)
    /\ insns[3].opcode = "OP_SEL"
    /\ \E r \in Outcomes(LAMBDA s : simplify_select(s, 3)) : Commit(r)
    /\ last' = [op |-> "simplify_select", insn |-> 3, force |-> 0]
    /\ UNCHANGED <<ev, pass>>

NextSelect == SimplifySelect

SpecSelect == InitSelect /\ [][NextSelect]_vars

\* the n-bit value of a pseudo when the non-constant pseudos hold rho
PseudoValue(p, rho) ==
    IF p[1] = "VAL" THEN BVAnd(BVOfInt(p[2]), LowBits(InsnSize)) ELSE rho[p]

\* c ? t : f of the select before the step
SelectValue(rho) ==
    IF PseudoValue(insns[3].src1, rho) # BVZero
    THEN PseudoValue(insns[3].src2, rho)
    ELSE PseudoValue(insns[3].src3, rho)

\* the value the ret gets after the step: of the instruction when it is
\* still there, else of the pseudo that took the place of %r3
SelectValueAfter(rho) ==
    IF insns'[3].bb # 0
    THEN eval_insn(insns'[3].opcode, InsnSize, PseudoValue(insns'[3].src1, rho),
                   PseudoValue(insns'[3].src2, rho), "modulo").value
    ELSE PseudoValue(insns'[4].src1, rho)

\* the select is dead and the ret reads pseudo p
SelectReplacedBy(p) ==
    /\ insns'[3].bb = 0
    /\ insns'[4].src1 = p
    /\ ret' # {}

\* the select has become "op c, $0"
SelectBecomes(op) ==
    /\ insns'[3].bb # 0
    /\ insns'[3].opcode = op
    /\ insns'[3].src1 = insns[3].src1
    /\ insns'[3].src2 = VAL(0)
    /\ ret' # {}

\* C15: simplify_select preserves c ? t : f: a VAL condition yields t when
\* it is non-zero and f when it is zero; t = f yields that operand; two VAL
\* arms 1, 0 yield set-ne c, 0 and 0, 1 yield set-eq c, 0, and no other
\* pair of VAL arms is rewritten; c = f with t = 0 yields 0.
C15_SelectKeepsChoice ==
    [][Called("simplify_select") /\ TargetInUse(3) /\ abort' = {} =>
          LET c == insns[3].src1
              x == insns[3].src2
              y == insns[3].src3
          IN  /\ CASE c[1] = "VAL" -> SelectReplacedBy(IF c[2] # 0 THEN x ELSE y)
                   [] c[1] # "VAL" /\ x = y -> SelectReplacedBy(x)
                   [] c[1] # "VAL" /\ x = VAL(1) /\ y = VAL(0) ->
                         SelectBecomes("OP_SET_NE")
                   [] c[1] # "VAL" /\ x = VAL(0) /\ y = VAL(1) ->
                         SelectBecomes("OP_SET_EQ")
                   [] c[1] # "VAL" /\ x # y /\ x = VAL(0) /\ c = y ->
                         SelectReplacedBy(VAL(0))
                   [] OTHER -> ret' = {} /\ IRUnchanged
              /\ \A rho \in [{REG(2), ARG(1)} -> RunValues(InsnSize)] :
                    ret' # {} => SelectValueAfter(rho) = SelectValue(rho)]_vars

\* C15 witness: a select on a condition that is not constant, with the arms
\* $1 and $0, has become set-ne on the condition and $0.
C15_Witness ==
    /\ last.op = "simplify_select" /\ ret # {}
    /\ insns[3].bb # 0 /\ insns[3].opcode = "OP_SET_NE"
    /\ insns[3].src1[1] # "VAL" /\ insns[3].src2 = VAL(0)

(***************************************************************************)
(* The loop of simplify_memop step by step, on a load or a store through   *)
(* %r3 with pointers of 32 and of 64 bits:                                 *)
(*     %r2 <- add.n a, $c1;  %r3 <- add.n b, $c2;  %r6 <- add.n %r2, $-c1  *)
(*     %r4 <- load.8 o[%r3];  ret.8 %r4                                    *)
(* The chain of adds ends at %arg1, leads back to %r3, or runs round       *)
(* %r2 and %r6.                                                            *)
(***************************************************************************)
PtrSizes == {32, 64}

MemopConstants == {0, 4, 0 - 4, 2147483644}

MemopOffsets == {BVZero, BVOfInt(8)}

\* orig = insn->src when simplify_memop starts
MemopOrig == REG(3)

MemAdd(k, n, x, y) == Insn("OP_ADD", 1, n, REG(k), x, y, NULLP)

MemopChains ==
    {OneBlock(<<Entry, MemAdd(2, n, a, VAL(c1)),
                IF right THEN MemAdd(3, n, b, VAL(c2)) ELSE MemAdd(3, n, VAL(c2), b),
                [m EXCEPT !.offset = o], RetInsn(1, m.target),
                MemAdd(6, n, REG(2), VAL(0 - c1))>>) :
        n \in PtrSizes, a \in {ARG(1), REG(3), REG(6)},
        c1 \in MemopConstants \ {2147483644},
        b \in {REG(2), ARG(1), REG(3)}, c2 \in MemopConstants, right \in BOOLEAN,
        m \in {Load(4, MemopOrig, FALSE), Store(VAL(0), MemopOrig)},
        o \in MemopOffsets}
    \cup
    {OneBlock(<<Entry, MemAdd(2, n, ARG(1), VAL(c)), MemAdd(3, n, REG(2), VAL(c)),
                Load(4, MemopOrig, FALSE), RetInsn(1, REG(4)),
                MemAdd(6, n, REG(2), VAL(0))>>) :
        n \in PtrSizes, c \in MemopConstants}

InitMemop ==
    /\ \E prog \in MemopChains :
          /\ insns = prog.insns
          /\ users = BuildUsers(prog.insns)
          /\ def = BuildDef(prog.insns)
          /\ blocks = prog.blocks
    /\ repeat_phase \in {{}, {"REPEAT_CFG_CLEANUP"}}
    /\ ret = {}
    /\ warn = {}
    /\ abort = {}
    /\ clobbered = {}
    /\ last = NoCall
    /\ ev = NoEval
    /\ pass = NoPass

\* one turn of the do/while loop of simplify_memop: the first one, or the
\* next one after a turn that returned non-zero
SimplifyOneMemop ==
    /\ abort = {}
    /\ \/ last = NoCall
       \/ last.op = "simplify_one_memop" /\ ret # {}
    /\ \E r \in Outcomes(LAMBDA s : simplify_one_memop(s, 4, MemopOrig)) : Commit(r)
    /\ last' = [op |-> "simplify_one_memop", insn |-> 4, force |-> 0]
    /\ UNCHANGED <<ev, pass>>

\* simplify_memop(insn) as a whole, as simplify_instruction calls it
SimplifyMemop ==
    /\ abort = {}
    /\ last = NoCall
    /\ \E r \in Outcomes(LAMBDA s : simplify_memop(s, 4)) : Commit(r)
    /\ last' = [op |-> "simplify_memop", insn |-> 4, force |-> 0]
    /\ UNCHANGED <<ev, pass>>

NextMemop == SimplifyOneMemop \/ SimplifyMemop

SpecMemop == InitMemop /\ [][NextMemop]_vars

\* the constant operand of an add, and the other one
AddConstant(insn) == IF constant(insn.src2) THEN insn.src2 ELSE insn.src1

AddBase(insn) == IF constant(insn.src2) THEN insn.src1 ELSE insn.src2

\* the entries of the use list of p for the address slot of the memop
AddressUses(us, p) == IF p \in DOMAIN us THEN CopiesIn(<<4, "src1", 0>>, us[p]) ELSE 0

\* address + offset in pointers of n bits, the offset being unsigned int
EffectiveAddress(a, offset, n) == AddW(a, offset, 0, n)

\* the same with the offset read as an int
EffectiveAddressInt(a, offset, n) ==
    AddW(a, SignExtend(offset, IntBits), 0, n)

\* for every value x of the base, base + new offset is (base + c) + old
\* offset
AddressKept(EA(_, _, _)) ==
    LET add == insns[def[insns[4].src1]]
        n   == add.size
    IN  \A x \in RunValues(n) :
           EA(x, insns'[4].offset, n) =
              EA(AddW(x, BVOfInt(AddConstant(add)[2]), 0, n), insns[4].offset, n)

\* this step is a turn of the loop that returned non-zero
MemopStepDone ==
    /\ Called("simplify_one_memop") /\ abort' = {} /\ ret' # {}

\* C16: a turn of simplify_one_memop on a load or store whose address is
\* "add base, $c" keeps the effective address (new address + new offset is
\* old address + old offset, for positive and negative c) and moves the
\* use-list entry of the address slot from the old address to the base; the
\* address becomes VOID only when the base is the original address of the
\* memop and REPEAT_CFG_CLEANUP is not pending.
C16_MemopStepKeepsAddress ==
    [][MemopStepDone =>
          LET addr == insns[4].src1
              base == AddBase(insns[def[addr]])
          IN  /\ insns'[4].src1 = VOID =>
                    base = MemopOrig /\ "REPEAT_CFG_CLEANUP" \notin repeat_phase
              /\ insns'[4].src1 # VOID =>
                    /\ insns'[4].src1 = base
                    /\ AddressUses(users', base) = 1
                    /\ base # addr => AddressUses(users', addr) = 0
                    /\ AddressKept(EffectiveAddress)]_vars

\* everything but the sum holds
C16_MemopStepMovesUse ==
    [][MemopStepDone =>
          LET addr == insns[4].src1
              base == AddBase(insns[def[addr]])
          IN  /\ insns'[4].src1 = VOID =>
                    base = MemopOrig /\ "REPEAT_CFG_CLEANUP" \notin repeat_phase
              /\ insns'[4].src1 # VOID =>
                    /\ insns'[4].src1 = base
                    /\ AddressUses(users', base) = 1
                    /\ base # addr => AddressUses(users', addr) = 0]_vars

\* the sum is kept in pointers of 32 bits
C16_AddressKeptIn32Bits ==
    [][MemopStepDone /\ insns'[4].src1 # VOID
          /\ insns[def[insns[4].src1]].size = IntBits =>
          AddressKept(EffectiveAddress)]_vars

\* the sum with the offset read as an int
C16_AddressKeptWithIntOffset ==
    [][MemopStepDone /\ insns'[4].src1 # VOID => AddressKept(EffectiveAddressInt)]_vars

\* the chain of adds from the address of the memop runs round %r2 and %r6
\* and never comes to %r3
CycleBesideOrig ==
    /\ insns[4].src1 \in {REG(2), REG(6)}
    /\ AddBase(insns[2]) = REG(6) /\ Live(2) /\ Live(6)

\* C17: simplify_memop comes to an end on every load or store and every
\* definition graph of its address, also on a cycle of constant adds that
\* does not pass through the original address: the do/while loop gets a zero
\* from simplify_one_memop (here: within MaxMemopSteps turns, on graphs of
\* three adds).
C17_MemopLoopEnds ==
    last.op = "simplify_memop" => abort = {}

\* the loop ends on every chain that does not run round a cycle beside the
\* original address
C17_MemopLoopEndsOffCycle ==
    [][Called("simplify_memop") /\ AddBase(insns[2]) # REG(6) => abort' = {}]_vars

\* on the cycle every turn of the loop returns non-zero
C17_CycleTurnsForEver ==
    [][Called("simplify_one_memop") /\ CycleBesideOrig =>
          ret' # {} /\ abort' = {} /\ CycleBesideOrig']_vars

\* ---- the last use of a pseudo without a defining instruction ----

\* pseudo p has a use before the step and none after it
LosesLastUse(p) ==
    /\ p \in DOMAIN users /\ BagToSet(users[p]) # {}
    /\ p \in DOMAIN users' /\ BagToSet(users'[p]) = {}

\* C18: a cascading unbind that removes the last use of a pseudo kills an
\* instruction only where the pseudo has a defining instruction (REG, PHI):
\* when a SYM loses its last use nothing is read or written through its
\* def/sym union as an instruction (no fault, the symbol is not written
\* over) and REPEAT_SYMBOL_CLEANUP is set; the entry instruction, which an
\* ARG holds there, stays live.
C18_LastSymUseKillsNothing ==
    [][/\ "fault: symbol read as instruction" \notin abort'
       /\ insns'[1].bb # 0
       /\ \A p \in DOMAIN users :
             p[1] = "SYM" /\ LosesLastUse(p) =>
                /\ clobbered' = clobbered
                /\ "REPEAT_SYMBOL_CLEANUP" \in repeat_phase']_vars

\* what holds whatever the read through the union yields: the symbol's last
\* use gone, REPEAT_SYMBOL_CLEANUP is set, and the entry stays live
C18_LastSymUseSetsCleanup ==
    [][/\ insns'[1].bb # 0
       /\ \A p \in DOMAIN users :
             p[1] = "SYM" /\ LosesLastUse(p) =>
                "REPEAT_SYMBOL_CLEANUP" \in repeat_phase']_vars

\* ---- what a call of simplify_instruction reports ----

\* the calls of simplify_instruction on the functions of every family, each
\* call on record in last
NextCalls == TracedSimplify

SpecCalls == Init /\ [][NextCalls]_vars

\* C19: a call of simplify_instruction that changes the IR (an instruction,
\* a use list, a definition or a block) returns non-zero or leaves a bit
\* set in repeat_phase, which was clear before when nothing was pending; a
\* call on a dead instruction returns 0 and changes nothing.
C19_ChangesAreSignalled ==
    [][Called("simplify_instruction") /\ abort' = {} =>
          /\ ~IRUnchanged => ret' # {} \/ repeat_phase' # {}
          /\ ~Live(last'.insn) =>
                ret' = {} /\ IRUnchanged /\ UNCHANGED repeat_phase]_vars

\* C19 witness: a call has changed the IR and returned non-zero with
\* nothing pending before, and the instruction it was called on is dead now
\* (a call on it returns 0).
C19_Witness ==
    /\ last.op = "simplify_instruction" /\ abort = {}
    /\ ret # {} /\ repeat_phase # {}
    /\ ~Live(last.insn)
=============================================================================
